---- MODULE Spec2Model ----
(***************************************************************************)
(* Leaderboard scoring, refresh cycle, persistence and scheduling of       *)
(* services/hl-scout/src/leaderboard.ts, with the scoring functions of     *)
(* the ts-lib scoring module (src/unnamed/part_007).                       *)
(*                                                                         *)
(* Numbers: the code computes in IEEE doubles.  Fractions (win rate,       *)
(* drawdown, score) are modelled in fixed point, SCALE units per 1.0,      *)
(* with the comparisons the code makes done on the exact integers where    *)
(* that is possible.  A weight is kept as an exact reduced fraction        *)
(* [num, den], so that "the weights sum to 1" is an exact statement.       *)
(***************************************************************************)
EXTENDS Integers, Sequences, FiniteSets, Bags, TLC

VARIABLES
    opts,        \* LeaderboardService.opts: [selectCount, periods]
    scoreIn,     \* raw snapshot handed to scoreEntries (pure-function runs)
    scoreOut,    \* [done, base, out]: the mapped list and the list scoreEntries
                 \* returned for scoreIn
    runs,        \* the async invocations started: refreshAll / ensureSeeded
    timer,       \* LeaderboardService.timer: 0 (null) or the interval handle
    intervals,   \* interval handles that are active in the event loop
    started,     \* number of start() calls so far (source of handles)
    committed,   \* database: per period the committed rows of the two tables
    cycles,      \* one record per refreshPeriod execution, in start order
    pager,       \* one fetchPeriod call: its locals and the requests it made
    request,     \* one requestJson call: its locals and the attempts it made
    pool,        \* one runWithConcurrency call: cursor, workers, invocations
    custom,      \* one fetchAndStoreCustomAccountStats call
    server       \* src/server.ts: state.addresses, recommendations, the polls

(* The custom-account call and the address server, modelled on their own. *)
webVars == <<custom, server>>

(* The state of the helper calls that are modelled on their own.           *)
helperVars == <<pager, request, pool, webVars>>

vars == <<opts, scoreIn, scoreOut, runs, timer, intervals, started, committed,
          cycles, helperVars>>

Nil == "nil"

(* An optional number: None when absent or not finite, Some(v) otherwise.  *)
None == <<>>
Some(v) == <<v>>
Val(o) == o[1]

----------------------------------------------------------------------------
(* Bounds of the model                                                     *)

MaxEntries == 3      \* entries in one raw leaderboard snapshot
MaxRuns == 2         \* refreshAll / ensureSeeded invocations per behaviour

(* Program constants                                                       *)

SCALE == 10000                   \* fixed-point units per 1.0
maxTradesHardLimit == 200
suspiciousMinTrades == 10
entryChunkSize == 100

Addr == <<"0xa1", "0xa2", "0xa3", "0xa4", "0xa5">>

Min(a, b) == IF a < b THEN a ELSE b
Max(a, b) == IF a > b THEN a ELSE b

RECURSIVE GCD(_, _)
GCD(a, b) == IF b = 0 THEN a ELSE GCD(b, a % b)

(* The fraction n/d in lowest terms; d > 0.                                *)
Frac(n, d) ==
    IF n = 0 THEN [num |-> 0, den |-> 1]
    ELSE LET g == GCD(IF n < 0 THEN -n ELSE n, d)
         IN [num |-> n \div g, den |-> d \div g]

FracAdd(a, b) == Frac(a.num * b.den + b.num * a.den, a.den * b.den)

Zero == Frac(0, 1)
One == Frac(1, 1)

RECURSIVE SumWeights(_)
SumWeights(s) ==
    IF s = <<>> THEN Zero ELSE FracAdd(Head(s).weight, SumWeights(Tail(s)))

RECURSIVE SumScores(_)
SumScores(s) == IF s = <<>> THEN 0 ELSE Head(s).score + SumScores(Tail(s))

RECURSIVE SumPosScores(_)
SumPosScores(s) ==
    IF s = <<>> THEN 0 ELSE Max(Head(s).score, 0) + SumPosScores(Tail(s))

Slice(s, n) == SubSeq(s, 1, Min(n, Len(s)))

Range(s) == {s[i] : i \in 1..Len(s)}

----------------------------------------------------------------------------
(* Scoring module                                                          *)

DEFAULT_SCORING_PARAMS ==
    [smoothPnlWeight |-> 45, winRateWeight |-> 30, pnlWeight |-> 15,
     tradeFreqWeight |-> 10,                      \* weights in hundredths
     optimalTrades |-> 100, tradeSigma |-> 150, pnlReference |-> 100000,
     maxDrawdownLimit |-> 8000,                   \* 0.80
     scalpingThreshold |-> 100]

clamp(value, lo, hi) == Min(hi, Max(lo, value))

RECURSIVE ISqrtIn(_, _, _)
ISqrtIn(v, lo, hi) ==
    IF lo >= hi THEN lo
    ELSE LET mid == (lo + hi + 1) \div 2
         IN IF mid * mid <= v THEN ISqrtIn(v, mid, hi) ELSE ISqrtIn(v, lo, mid - 1)

ISqrt(v) == ISqrtIn(v, 0, Min(v, 46340))

(* floor(log10 n) for n >= 1; exact when n is a power of ten.              *)
RECURSIVE Log10(_)
Log10(n) == IF n < 10 THEN 0 ELSE 1 + Log10(n \div 10)

(* exp(-x) for 0 <= x <= 1.0 (x in SCALE units), by its Taylor series.     *)
ExpNeg(x) ==
    LET t2 == (x * x) \div (2 * SCALE)
        t3 == (t2 * x) \div (3 * SCALE)
        t4 == (t3 * x) \div (4 * SCALE)
    IN Max(0, SCALE - x + t2 - t3 + t4)

(* The finite numeric values of a pnlList, in order (non-finite dropped).  *)
FiniteValues(pnlList) ==
    LET vals == [i \in 1..Len(pnlList) |-> pnlList[i].value]
        IsFinite(v) == v # None
        finite == SelectSeq(vals, IsFinite)
    IN [i \in 1..Len(finite) |-> Val(finite[i])]

(* The loop over x: running peak, max drawdown and sum of squares.         *)
RECURSIVE DrawdownScan(_, _, _, _)
DrawdownScan(x, peak, mdd, ddSqSum) ==
    IF x = <<>> THEN [mdd |-> mdd, ddSqSum |-> ddSqSum]
    ELSE LET xi == Head(x)
             pk == IF xi > peak THEN xi ELSE peak
             dd == IF pk > 0 THEN Max(0, ((pk - xi) * SCALE) \div pk) ELSE 0
         IN DrawdownScan(Tail(x), pk, Max(mdd, dd), ddSqSum + dd * dd)

Abs(v) == IF v < 0 THEN -v ELSE v

RECURSIVE MaxAbs(_)
MaxAbs(x) == IF x = <<>> THEN 0 ELSE Max(Abs(Head(x)), MaxAbs(Tail(x)))

(* upFrac: the share of the steps of x that go up.                         *)
UpFraction(x) ==
    (Cardinality({i \in 2..Len(x) : x[i] > x[i - 1]}) * SCALE) \div (Len(x) - 1)

(* R: the final value over the largest absolute value, 0 if not positive.  *)
ReturnRatio(last, maxAbs) ==
    IF last > 0 /\ maxAbs > 0 THEN (last * SCALE) \div maxAbs ELSE 0

(* The result object, from the loop's totals.                              *)
SmoothPnlResult(mdd, ulcer, upFrac, R) ==
    [score |-> (((Max(0, R) * upFrac) \div SCALE) * SCALE) \div (SCALE + mdd + ulcer),
     maxDrawdown |-> mdd, ulcerIndex |-> ulcer, upFraction |-> upFrac]

SmoothPnlOfScan(scan, n, upFrac, R) ==
    SmoothPnlResult(scan.mdd, ISqrt(scan.ddSqSum \div n), upFrac, R)

(* x: the values normalised to start at 0.                                 *)
SmoothPnlOfX(x) ==
    SmoothPnlOfScan(DrawdownScan(x, x[1], 0, 0), Len(x), UpFraction(x),
                    ReturnRatio(x[Len(x)], MaxAbs(x)))

SmoothPnlOfValues(values) ==
    IF Len(values) < 2
    THEN [score |-> 0, maxDrawdown |-> 0, ulcerIndex |-> 0, upFraction |-> 0]
    ELSE SmoothPnlOfX([i \in 1..Len(values) |-> values[i] - values[1]])

computeSmoothPnlScore(pnlList) == SmoothPnlOfValues(FiniteValues(pnlList))

(* Variant: Laplace smoothing alone, without the two penalties.            *)
computeSmoothedWinRate(numWins, numLosses) ==
    ((numWins + 1) * SCALE) \div (numWins + numLosses + 2)

computeAdjustedWinRate(numWins, numLosses) ==
    LET baseWinRate == ((numWins + 1) * SCALE) \div (numWins + numLosses + 2)
    IN IF numLosses = 0 /\ numWins > 0 THEN (7 * baseWinRate) \div 10
       ELSE IF (numWins + 1) * 100 > 95 * (numWins + numLosses + 2)
               /\ numWins + numLosses > 20
            THEN (8 * baseWinRate) \div 10
            ELSE baseWinRate

computeNormalizedPnl(realizedPnl, reference) ==
    IF realizedPnl <= 0 THEN 0
    ELSE Min(SCALE, Max(0, (Log10(realizedPnl + 1) * SCALE) \div Log10(reference)))

(* The penalty on the Gaussian score for numTrades above the threshold.    *)
ScalpingPenalty(score, numTrades, scalpingThreshold) ==
    IF numTrades > scalpingThreshold
    THEN IF numTrades - scalpingThreshold <= 50 THEN (score * 7) \div 10
         ELSE IF numTrades - scalpingThreshold <= 100 THEN (score * 4) \div 10
         ELSE IF numTrades - scalpingThreshold <= 200 THEN (score * 2) \div 10
         ELSE (score * 5) \div 100
    ELSE score

computeTradeFreqScore(numTrades, optimal, sigma, scalpingThreshold) ==
    IF numTrades <= 0 THEN 0
    ELSE ScalpingPenalty(
             ExpNeg(((numTrades - optimal) * (numTrades - optimal) * SCALE)
                        \div (2 * sigma * sigma)),
             numTrades, scalpingThreshold)

ZeroDetails(maxDrawdown) ==
    [smoothPnlScore |-> 0, maxDrawdown |-> maxDrawdown, adjWinRate |-> 0,
     normalizedPnl |-> 0, tradeFreqScore |-> 0]

createZeroResult == [score |-> 0, filtered |-> FALSE, filterReason |-> Nil,
                     details |-> ZeroDetails(0)]

createFilteredResult(maxDrawdown, reason) ==
    [score |-> 0, filtered |-> TRUE, filterReason |-> reason,
     details |-> ZeroDetails(maxDrawdown)]

PerformanceResultUnfiltered(smoothPnlResult, adjWinRate, normalizedPnl, tradeFreqScore, params) ==
    [score |-> (params.smoothPnlWeight * smoothPnlResult.score
                + params.winRateWeight * adjWinRate
                + params.pnlWeight * normalizedPnl
                + params.tradeFreqWeight * tradeFreqScore) \div 100,
     filtered |-> FALSE, filterReason |-> Nil,
     details |-> [smoothPnlScore |-> smoothPnlResult.score,
                  maxDrawdown |-> smoothPnlResult.maxDrawdown,
                  adjWinRate |-> adjWinRate,
                  normalizedPnl |-> normalizedPnl,
                  tradeFreqScore |-> tradeFreqScore]]

(* The drawdown filter and the weighted sum of the four components.       *)
PerformanceResult(smoothPnlResult, adjWinRate, normalizedPnl, tradeFreqScore, params) ==
    IF smoothPnlResult.maxDrawdown > params.maxDrawdownLimit
    THEN createFilteredResult(smoothPnlResult.maxDrawdown, "max_drawdown_exceeded")
    ELSE [score |-> (params.smoothPnlWeight * smoothPnlResult.score
                     + params.winRateWeight * adjWinRate
                     + params.pnlWeight * normalizedPnl
                     + params.tradeFreqWeight * tradeFreqScore) \div 100,
          filtered |-> FALSE, filterReason |-> Nil,
          details |-> [smoothPnlScore |-> smoothPnlResult.score,
                       maxDrawdown |-> smoothPnlResult.maxDrawdown,
                       adjWinRate |-> adjWinRate,
                       normalizedPnl |-> normalizedPnl,
                       tradeFreqScore |-> tradeFreqScore]]

computePerformanceScore(stats, params) ==
    IF stats.numTrades < 0 \/ stats.numWins < 0 \/ stats.numLosses < 0
    THEN createZeroResult
    ELSE PerformanceResult(
             IF Len(stats.pnlList) >= 2
             THEN computeSmoothPnlScore(stats.pnlList)
             ELSE [score |-> 0, maxDrawdown |-> 0, ulcerIndex |-> 0, upFraction |-> 0],
             computeAdjustedWinRate(stats.numWins, stats.numLosses),
             computeNormalizedPnl(stats.realizedPnl, params.pnlReference),
             computeTradeFreqScore(stats.numTrades, params.optimalTrades,
                                   params.tradeSigma, params.scalpingThreshold),
             params)

----------------------------------------------------------------------------
(* LeaderboardService.scoreEntries (phase 1)                               *)

(* Variant: only the top-level maxDrawdown is read, stats is ignored.      *)
apiMaxDrawdownTopLevel(entry) ==
    IF entry.maxDrawdown # None THEN Val(entry.maxDrawdown) ELSE 0

(* entry.stats?.maxDrawdown ?? entry.maxDrawdown ?? 0                      *)
apiMaxDrawdown(entry) ==
    IF entry.statsMdd # None THEN Val(entry.statsMdd)
    ELSE IF entry.maxDrawdown # None THEN Val(entry.maxDrawdown)
    ELSE 0

(* The entry a hard filter of scoreEntries returns.                        *)
HardFiltered(entry, reason) ==
    [address |-> entry.address, score |-> 0, filtered |-> TRUE,
     filterReason |-> reason,
     winRate |-> clamp(entry.winRate, 0, SCALE),
     executedOrders |-> entry.executedOrders,
     realizedPnl |-> entry.realizedPnl, pnlConsistency |-> 0,
     statMaxDrawdown |-> apiMaxDrawdown(entry),
     meta |-> [filtered |-> TRUE, filterReason |-> reason,
               pnlList |-> entry.pnlList, stats |-> None]]

(* numWins = Math.round(numTrades * winRate)                               *)
NumWins(executed, winRate) == (executed * winRate + SCALE \div 2) \div SCALE

(* The stats object handed to computePerformanceScore.                     *)
ScoringStats(entry, executed, numWins) ==
    [realizedPnl |-> entry.realizedPnl, numTrades |-> executed,
     numWins |-> numWins, numLosses |-> executed - numWins,
     pnlList |-> entry.pnlList]

(* The entry returned when no hard filter applies.                         *)
Scored(entry, scoringResult) ==
    [address |-> entry.address, score |-> scoringResult.score,
     filtered |-> scoringResult.filtered,
     filterReason |-> scoringResult.filterReason,
     winRate |-> clamp(entry.winRate, 0, SCALE),
     executedOrders |-> entry.executedOrders,
     realizedPnl |-> entry.realizedPnl,
     pnlConsistency |-> scoringResult.details.smoothPnlScore,
     statMaxDrawdown |->
         Max(apiMaxDrawdown(entry), scoringResult.details.maxDrawdown),
     meta |-> [filtered |-> scoringResult.filtered,
               filterReason |-> scoringResult.filterReason,
               pnlList |-> entry.pnlList, stats |-> None]]

ScoreOneInclusive(entry) ==
    IF apiMaxDrawdown(entry) > DEFAULT_SCORING_PARAMS.maxDrawdownLimit
    THEN HardFiltered(entry, "max_drawdown_exceeded")
    ELSE IF entry.executedOrders >= maxTradesHardLimit
    THEN HardFiltered(entry, "scalping_penalty")
    ELSE Scored(entry,
                computePerformanceScore(
                    ScoringStats(entry, entry.executedOrders,
                                 NumWins(entry.executedOrders,
                                         clamp(entry.winRate, 0, SCALE))),
                    DEFAULT_SCORING_PARAMS))

(* The callback of entries.map in scoreEntries.                            *)
ScoreOne(entry) ==
    IF apiMaxDrawdown(entry) > DEFAULT_SCORING_PARAMS.maxDrawdownLimit
    THEN HardFiltered(entry, "max_drawdown_exceeded")
    ELSE IF entry.executedOrders > maxTradesHardLimit
    THEN HardFiltered(entry, "scalping_penalty")
    ELSE Scored(entry,
                computePerformanceScore(
                    ScoringStats(entry, entry.executedOrders,
                                 NumWins(entry.executedOrders,
                                         clamp(entry.winRate, 0, SCALE))),
                    DEFAULT_SCORING_PARAMS))

(* Array.prototype.sort with (a, b) => b.score - a.score: stable,          *)
(* descending by score.                                                    *)
RECURSIVE InsertByScore(_, _)
InsertByScore(e, s) ==
    IF s = <<>> THEN <<e>>
    ELSE IF Head(s).score <= e.score THEN <<e>> \o s
         ELSE <<Head(s)>> \o InsertByScore(e, Tail(s))

SortByScoreKeepOrder(s) == s

RECURSIVE SortByScoreDesc(_)
SortByScoreDesc(s) ==
    IF s = <<>> THEN <<>> ELSE InsertByScore(Head(s), SortByScoreDesc(Tail(s)))

(* base: every raw entry mapped; all scores of the model are finite.       *)
ScoreBase(entries) == [i \in 1..Len(entries) |-> ScoreOne(entries[i])]

NotFiltered(e) == ~e.filtered

NotSuspiciousAnyTrades(e) == e.winRate < 9990

NotSuspicious(e) == e.winRate < 9990 \/ e.executedOrders < suspiciousMinTrades

ScoreSurvivorsNoFallback(base) ==
    SelectSeq(SelectSeq(base, NotFiltered), NotSuspicious)

(* scored: the list that is sorted, with the all-filtered fallback.        *)
ScoreSurvivors(base) ==
    IF Len(SelectSeq(SelectSeq(base, NotFiltered), NotSuspicious)) = 0 THEN base
    ELSE SelectSeq(SelectSeq(base, NotFiltered), NotSuspicious)

(* The weight of the entry at position idx (1-based) of the sorted list.   *)
(* totalScore: the sum of max(score, 0) over the top selectCount, or 1.    *)
TotalScore(sum) == IF sum = 0 THEN 1 ELSE sum

(* Variant: the weight is not cut off at selectCount.                      *)
Phase1WeightAll(entry, idx, selectCount, totalScore) ==
    Frac(Max(entry.score, 0), totalScore)

Phase1Weight(entry, idx, selectCount, totalScore) ==
    IF idx <= selectCount THEN Frac(Max(entry.score, 0), totalScore) ELSE Zero

(* scored.map((entry, idx) => ({...entry, rank, weight}))                  *)
RankAndWeigh(sorted, selectCount, totalScore) ==
    [idx \in 1..Len(sorted) |->
        [rank |-> idx,
         weight |-> Phase1Weight(sorted[idx], idx, selectCount, totalScore)]
            @@ sorted[idx]]

WeighSorted(sorted, selectCount) ==
    RankAndWeigh(sorted, selectCount,
                 TotalScore(SumPosScores(Slice(sorted, selectCount))))

scoreEntries(entries, selectCount) ==
    WeighSorted(SortByScoreDesc(ScoreSurvivors(ScoreBase(entries))), selectCount)

----------------------------------------------------------------------------
(* LeaderboardService.refreshPeriod: enrichment and phase 2                *)

topN == 1000

WINDOW_PERIOD_MAP == [day |-> 1, week |-> 7, month |-> 30]

(* this.enrichCount, with opts.enrichCount defaulting to selectCount.      *)
enrichCount(o) == Max(0, Min(o.selectCount, topN))

enrichTarget(ranked, o) == Min(Len(ranked), Max(enrichCount(o), o.selectCount * 2))

(* Variant: the stats also settle the weight of the entry.                 *)
applyStatsAndWeight(entry, stats) ==
    [entry EXCEPT !.meta = [@ EXCEPT !.stats = Some(stats)], !.weight = Zero]

applyStatsToEntry(entry, stats) ==
    [entry EXCEPT
        !.winRate = IF stats.winRate # None
                    THEN clamp(Val(stats.winRate), 0, SCALE) ELSE @,
        !.statMaxDrawdown = IF stats.maxDrawdown # None
                            THEN Val(stats.maxDrawdown) ELSE @,
        !.meta = [@ EXCEPT !.stats = Some(stats)]]

(* applyAddressStats on toEnrich = the first n entries of ranked; the      *)
(* entries are shared objects, so ranked sees the updates.  statsMap maps  *)
(* the addresses whose stats were fetched to the stats.                    *)
applyAddressStats(ranked, n, statsMap) ==
    [i \in 1..Len(ranked) |->
        IF i <= n /\ ranked[i].address \in DOMAIN statsMap
        THEN applyStatsToEntry(ranked[i], statsMap[ranked[i].address])
        ELSE ranked[i]]

WithinDrawdownLimit(entry) ==
    entry.statMaxDrawdown <= DEFAULT_SCORING_PARAMS.maxDrawdownLimit

(* The weight loop that runs when the re-filter dropped an entry.          *)
(* Variant: membership of the top is decided by the phase-1 rank.          *)
Phase2WeightByRank(entry, idx, selectCount, sumScores) ==
    IF entry.rank <= selectCount /\ sumScores > 0
    THEN Frac(entry.score, sumScores)
    ELSE Zero

Phase2Weight(entry, idx, selectCount, sumScores) ==
    IF idx <= selectCount /\ sumScores > 0
    THEN Frac(entry.score, sumScores)
    ELSE Zero

(* for (const entry of ranked) entry.weight = ...                          *)
Reweigh(kept, selectCount, sumScores) ==
    [i \in 1..Len(kept) |->
        [kept[i] EXCEPT !.weight = Phase2Weight(kept[i], i, selectCount, sumScores)]]

(* The weights are recalculated only if the filter dropped an entry.       *)
RefilterKept(kept, beforeCount, selectCount) ==
    IF beforeCount - Len(kept) > 0
    THEN Reweigh(kept, selectCount, SumScores(Slice(kept, selectCount)))
    ELSE kept

(* Variant: only the entries of toEnrich are filtered.                     *)
RefilterEnrichedOnly(ranked, selectCount) ==
    LET Keep(entry) == entry.rank > enrichTarget(ranked, opts)
                           \/ WithinDrawdownLimit(entry)
    IN RefilterKept(SelectSeq(ranked, Keep), Len(ranked), selectCount)

(* ranked.filter(...) and the recalculation of the weights.                *)
Refilter(ranked, selectCount) ==
    RefilterKept(SelectSeq(ranked, WithinDrawdownLimit), Len(ranked), selectCount)

----------------------------------------------------------------------------
(* Persistence: persistPeriod and insertPnlPointsInTransaction             *)

RECURSIVE SeqToBag(_)
SeqToBag(s) ==
    IF s = <<>> THEN EmptyBag ELSE SetToBag({Head(s)}) (+) SeqToBag(Tail(s))

RECURSIVE Flatten(_)
Flatten(ss) == IF ss = <<>> THEN <<>> ELSE Head(ss) \o Flatten(Tail(ss))

(* The 'hyperbot' points of one tracked entry, from meta.pnlList.          *)
HyperbotPoints(period, entry) ==
    LET list == entry.meta.pnlList
    IN [i \in 1..Len(list) |->
           [by |-> entry.by, address |-> entry.address, source |-> "hyperbot",
            window |-> <<"period", period>>, ts |-> list[i].timestamp,
            pnlValue |-> list[i].value, equityValue |-> None]]

(* mergeHistories: one sample per timestamp, pnl and equity joined.        *)
mergeHistories(series) ==
    LET stamps == {series.pnlHistory[i].ts : i \in 1..Len(series.pnlHistory)}
                  \cup {series.equityHistory[i].ts : i \in 1..Len(series.equityHistory)}
        Last(h, t) ==
            IF \E i \in 1..Len(h) : h[i].ts = t
            THEN Some(h[CHOOSE i \in 1..Len(h) :
                          h[i].ts = t /\ \A j \in (i + 1)..Len(h) : h[j].ts # t].value)
            ELSE None
    IN {[ts |-> t, pnl |-> Last(series.pnlHistory, t),
         equity |-> Last(series.equityHistory, t)] : t \in stamps}

(* The 'hyperliquid' points of one window of one address, as a bag.        *)
WindowPoints(period, address, series, by) ==
    IF WINDOW_PERIOD_MAP[series.window] # period THEN EmptyBag
    ELSE SetToBag({[by |-> by, address |-> address, source |-> "hyperliquid",
                    window |-> <<series.window, 0>>, ts |-> m.ts,
                    pnlValue |-> m.pnl, equityValue |-> m.equity]
                   : m \in mergeHistories(series)})

RECURSIVE BagSum(_)
BagSum(bags) == IF bags = <<>> THEN EmptyBag ELSE Head(bags) (+) BagSum(Tail(bags))

RECURSIVE SetToSeq(_)
SetToSeq(S) ==
    IF S = {} THEN <<>>
    ELSE LET x == CHOOSE y \in S : TRUE IN <<x>> \o SetToSeq(S \ {x})

(* points: every row insertPnlPointsInTransaction builds.                  *)
PnlPoints(period, tracked, hyperliquidSeries, by) ==
    LET addrs == SetToSeq(DOMAIN hyperliquidSeries)
    IN SeqToBag(Flatten([i \in 1..Len(tracked) |-> HyperbotPoints(period, tracked[i])]))
       (+) BagSum([a \in 1..Len(addrs) |->
                      BagSum([w \in 1..Len(hyperliquidSeries[addrs[a]]) |->
                          WindowPoints(period, addrs[a],
                                       hyperliquidSeries[addrs[a]][w], by)])])

(* A transaction's private state: the committed rows its DELETEs removed   *)
(* (as its statements saw them) and the rows it inserted.                  *)
NoTx == [seenE |-> {}, seenP |-> EmptyBag, insE |-> {}, insP |-> EmptyBag]

(* DELETE FROM hl_leaderboard_entries WHERE period_days = $1               *)
TxDeleteEntries(tx, dbp) == [tx EXCEPT !.seenE = dbp.entries]

(* Variant: the points of the period are not deleted before the insert.    *)
TxKeepPoints(tx, dbp) == tx

(* DELETE FROM hl_leaderboard_pnl_points WHERE period_days = $1            *)
TxDeletePoints(tx, dbp) == [tx EXCEPT !.seenP = dbp.points]

(* INSERT INTO hl_leaderboard_entries ... for one chunk of entries.        *)
TxInsertEntries(tx, chunk) == [tx EXCEPT !.insE = @ \cup Range(chunk)]

(* INSERT INTO hl_leaderboard_pnl_points ... for the points.               *)
TxInsertPoints(tx, points) == [tx EXCEPT !.insP = @ (+) points]

(* ON CONFLICT (period_days, lower(address)) DO UPDATE: a row of the same  *)
(* address is replaced.                                                    *)
Upsert(rows, ins) ==
    {r \in rows : \A n \in ins : n.address # r.address} \cup ins

(* COMMIT: the transaction's deletes and inserts become visible at once.   *)
TxCommit(dbp, tx) ==
    [entries |-> Upsert(dbp.entries \ tx.seenE, tx.insE),
     points |-> (dbp.points (-) tx.seenP) (+) tx.insP]

(* The rows of a cycle carry the number of the cycle that wrote them      *)
(* (the row version; fetched_at = now() in the table).                     *)
Stamp(entries, by) == [i \in 1..Len(entries) |-> [by |-> by] @@ entries[i]]

(* The rows that persistPeriod is asked to store for a cycle: its          *)
(* arguments entries, tracked and hyperliquidSeries, as table rows.        *)
CycleRows(period, entries, tracked, hyperliquidSeries, by) ==
    [entries |-> Range(Stamp(entries, by)),
     points |-> IF Len(entries) = 0 \/ Len(tracked) = 0 THEN EmptyBag
                ELSE PnlPoints(period, Stamp(tracked, by), hyperliquidSeries, by)]

----------------------------------------------------------------------------
(* Inputs: raw leaderboard entries                                         *)

MkPnlList(values) ==
    [i \in 1..Len(values) |-> [timestamp |-> i, value |-> values[i]]]

V(values) == [i \in 1..Len(values) |-> Some(values[i])]

Rising == MkPnlList(V(<<0, 10, 20, 30>>))
Dip == MkPnlList(V(<<0, 25, 50, 45, 60>>))
Crash == MkPnlList(V(<<0, 50, 100, 30, 10>>))
Gappy == MkPnlList(<<Some(0), None, Some(40)>>)

Profile(winRate, executedOrders, realizedPnl, statsMdd, pnlList) ==
    [winRate |-> winRate, executedOrders |-> executedOrders,
     realizedPnl |-> realizedPnl, statsMdd |-> statsMdd, maxDrawdown |-> None,
     pnlList |-> pnlList]

pGood == Profile(6500, 100, 99999, None, Rising)
pModest == Profile(6000, 80, 9999, Some(2000), Dip)
pApiMdd == Profile(8200, 28, 99999, Some(10000), Rising)
pScalper == Profile(7000, 250, 999999, None, Rising)
pCrash == Profile(6500, 100, 99999, None, Crash)
pPerfect == Profile(10000, 50, 99999, None, Rising)
pPerfectFew == Profile(10000, 5, 999, None, Gappy)
pEdge == Profile(6500, 200, 99999, Some(8000), Rising)
pIdle == Profile(0, 0, -500, None, <<>>)
pScalperMdd == Profile(7000, 250, 999999, Some(9000), Rising)
pScalperCrash == Profile(7000, 250, 999999, None, Crash)
pNearPerfect == Profile(9990, 10, 99999, None, Rising)

AllProfiles ==
    {pGood, pModest, pApiMdd, pScalper, pCrash, pPerfect, pPerfectFew, pEdge, pIdle,
     pNearPerfect}

(* The profiles around the two hard filters and their order.               *)
FilterProfiles ==
    {pGood, pCrash, pEdge, pScalper, pScalperMdd, pScalperCrash}

(* Snapshots of n entries: entry i has address Addr[i] and any profile.    *)
Snapshots(profiles, n) ==
    {[i \in 1..n |-> [address |-> Addr[i]] @@ f[i]] : f \in [1..n -> profiles]}

SnapshotsUpTo(profiles, n) == UNION {Snapshots(profiles, k) : k \in 0..n}

----------------------------------------------------------------------------
(* Specification of the pure scorer: one call of scoreEntries              *)

EmptyTables == [entries |-> {}, points |-> EmptyBag]

(* A helper that is not being called in this behaviour.                    *)
NoCall == [pc |-> "idle"]

(* The service right after construction: nothing started, empty tables.    *)
NoCycles ==
    /\ custom = NoCall
    /\ server = NoCall
    /\ runs = <<>>
    /\ timer = 0
    /\ intervals = {}
    /\ started = 0
    /\ committed = [p \in Range(opts.periods) |-> EmptyTables]
    /\ cycles = <<>>

IdleState ==
    /\ NoCycles
    /\ pager = NoCall
    /\ request = NoCall
    /\ pool = NoCall

InitScore ==
    /\ opts \in [selectCount : {1, 2}, periods : {<<30>>}]
    /\ scoreIn \in SnapshotsUpTo(AllProfiles, MaxEntries)
    /\ scoreOut = [done |-> FALSE, base |-> <<>>, out |-> <<>>]
    /\ IdleState

ScoreCall ==
    /\ ~scoreOut.done
    /\ scoreOut' = [done |-> TRUE, base |-> ScoreBase(scoreIn),
                    out |-> scoreEntries(scoreIn, opts.selectCount)]
    /\ UNCHANGED <<helperVars, opts, scoreIn, runs, timer, intervals, started, committed,
                   cycles>>

NextScore == ScoreCall

SpecScore == InitScore /\ [][NextScore]_vars

(* The same call on snapshots of the hard-filter profiles.                 *)
InitFilter ==
    /\ opts \in [selectCount : {1, 2}, periods : {<<30>>}]
    /\ scoreIn \in SnapshotsUpTo(FilterProfiles, MaxEntries)
    /\ scoreOut = [done |-> FALSE, base |-> <<>>, out |-> <<>>]
    /\ IdleState

SpecFilter == InitFilter /\ [][NextScore]_vars

----------------------------------------------------------------------------
(* Inputs: per-address stats and portfolio series                          *)

(* An AddressStats as fetchAddressStat returns it.                         *)
StatsLow == [winRate |-> Some(5500), maxDrawdown |-> Some(1000)]
StatsHigh == [winRate |-> None, maxDrawdown |-> Some(9000)]

(* A fetch outcome: <<>> for null (failed or no data), <<x>> for x.        *)
StatOutcomes == {<<>>, <<StatsLow>>, <<StatsHigh>>}

SeriesMonth ==
    <<[window |-> "month",
       pnlHistory |-> <<[ts |-> 1, value |-> 5], [ts |-> 2, value |-> 8]>>,
       equityHistory |-> <<[ts |-> 2, value |-> 70]>>],
      [window |-> "week",
       pnlHistory |-> <<[ts |-> 2, value |-> 3]>>,
       equityHistory |-> <<>>]>>

SeriesOutcomes == {<<>>, <<SeriesMonth>>}

(* Variant: one failed fetch empties the map (no catch around the worker). *)
OutcomeMapAllOrNothing(outcome) ==
    IF \E b \in DOMAIN outcome : outcome[b] = <<>> THEN <<>>
    ELSE [a \in DOMAIN outcome |-> outcome[a][1]]

(* The map a batch fetch builds from the per-address outcomes.             *)
OutcomeMap(outcome) ==
    [a \in {b \in DOMAIN outcome : outcome[b] # <<>>} |-> outcome[a][1]]

(* fetchPortfolioSeriesBatch keeps the windows of the period, and only     *)
(* the addresses that have one.                                            *)
RelevantWindows(series, period) ==
    LET OfPeriod(w) == WINDOW_PERIOD_MAP[w.window] = period
    IN SelectSeq(series, OfPeriod)

SeriesMap(outcome, period) ==
    LET fetched == OutcomeMap(outcome)
    IN [a \in {b \in DOMAIN fetched : Len(RelevantWindows(fetched[b], period)) > 0}
          |-> RelevantWindows(fetched[a], period)]

----------------------------------------------------------------------------
(* The service: runs of refreshAll / ensureSeeded and their cycles         *)

CyclePcs == {"fetch", "stats", "series", "connect", "begin", "delE", "delP",
             "insE", "insP", "commit", "rollback", "publish"}

TxPcs == {"begin", "delE", "delP", "insE", "insP", "commit"}

NewRun(kind) ==
    [kind |-> kind, pidx |-> 1,
     pc |-> IF kind = "refreshAll" THEN "fetch" ELSE "check",
     id |-> 0, ranked |-> <<>>, statsOutcome |-> <<>>, series |-> <<>>,
     seriesOutcome |-> <<>>, tx |-> NoTx, k |-> 0]

PeriodOf(run) == opts.periods[run.pidx]

InCycle(run) == run.pc \in CyclePcs

Finished(run) == run.pc \in {"done", "failed"}

(* Variant: the error of a period is not caught.                           *)
EndCycleNoCatch(run, ok) ==
    LET cleared == [run EXCEPT !.id = 0, !.ranked = <<>>, !.statsOutcome = <<>>,
                               !.series = <<>>, !.seriesOutcome = <<>>,
                               !.tx = NoTx, !.k = 0]
    IN IF ~ok THEN [cleared EXCEPT !.pc = "failed"]
       ELSE IF run.pidx < Len(opts.periods)
       THEN [cleared EXCEPT !.pidx = @ + 1,
                            !.pc = IF run.kind = "refreshAll" THEN "fetch" ELSE "check"]
       ELSE [cleared EXCEPT !.pc = "done"]

(* What follows the end of a cycle: refreshAll catches the error of a      *)
(* period and goes on; ensureSeeded does not catch and rejects.            *)
EndCycle(run, ok) ==
    LET cleared == [run EXCEPT !.id = 0, !.ranked = <<>>, !.statsOutcome = <<>>,
                               !.series = <<>>, !.seriesOutcome = <<>>,
                               !.tx = NoTx, !.k = 0]
    IN IF ~ok /\ run.kind = "ensureSeeded" THEN [cleared EXCEPT !.pc = "failed"]
       ELSE IF run.pidx < Len(opts.periods)
       THEN [cleared EXCEPT !.pidx = @ + 1,
                            !.pc = IF run.kind = "refreshAll" THEN "fetch" ELSE "check"]
       ELSE [cleared EXCEPT !.pc = "done"]

NewCycle(period, raw, phase1, state) ==
    [period |-> period, state |-> state, raw |-> raw, phase1 |-> phase1,
     persisted |-> <<>>, rows |-> EmptyTables, events |-> <<>>,
     checkouts |-> 0, releases |-> 0, exit |-> Nil]

SetCycle(id, field, value) == cycles' = [cycles EXCEPT ![id][field] = value]

Spawn(kind, limit, serial) ==
    /\ Len(runs) < limit
    /\ serial => \A r \in DOMAIN runs : Finished(runs[r])
    /\ runs' = Append(runs, NewRun(kind))

(* Variant: start() sets a new interval without clearing the one it has.   *)
StartWithoutClear(limit, serial) ==
    /\ Spawn("refreshAll", limit, serial)
    /\ started' = started + 1
    /\ intervals' = intervals \cup {started + 1}
    /\ timer' = started + 1
    /\ UNCHANGED <<helperVars, opts, scoreIn, scoreOut, committed, cycles>>

(* start(): one refreshAll at once, then the interval.                     *)
Start(limit, serial) ==
    /\ Spawn("refreshAll", limit, serial)
    /\ started' = started + 1
    /\ intervals' = (intervals \ {timer}) \cup {started + 1}
    /\ timer' = started + 1
    /\ UNCHANGED <<helperVars, opts, scoreIn, scoreOut, committed, cycles>>

(* The callback of setInterval.                                            *)
Tick(limit, serial) ==
    /\ intervals # {}
    /\ Spawn("refreshAll", limit, serial)
    /\ UNCHANGED <<helperVars, opts, scoreIn, scoreOut, timer, intervals, started,
                   committed, cycles>>

StopWithoutClear ==
    /\ timer # 0
    /\ timer' = 0
    /\ UNCHANGED <<helperVars, opts, scoreIn, scoreOut, runs, intervals, started, committed,
                   cycles>>

Stop ==
    /\ timer # 0
    /\ intervals' = intervals \ {timer}
    /\ timer' = 0
    /\ UNCHANGED <<helperVars, opts, scoreIn, scoreOut, runs, started, committed, cycles>>

EnsureSeeded(limit, serial) ==
    /\ Spawn("ensureSeeded", limit, serial)
    /\ UNCHANGED <<helperVars, opts, scoreIn, scoreOut, timer, intervals, started,
                   committed, cycles>>

(* ensureSeeded: SELECT 1 ... LIMIT 1, then refreshPeriod if no row.       *)
SeedCheck(r) ==
    /\ runs[r].pc = "check"
    /\ runs' = [runs EXCEPT ![r] =
                   IF committed[PeriodOf(runs[r])].entries = {}
                   THEN [@ EXCEPT !.pc = "fetch"]
                   ELSE EndCycle(@, TRUE)]
    /\ UNCHANGED <<helperVars, opts, scoreIn, scoreOut, timer, intervals, started,
                   committed, cycles>>

(* The run after phase 1: if there is nothing to enrich, refreshPeriod    *)
(* goes straight to persistPeriod.                                         *)
AfterPhase1(run, id, ranked) ==
    [run EXCEPT !.id = id, !.ranked = ranked,
                !.pc = IF enrichTarget(ranked, opts) > 0 THEN "stats" ELSE "connect"]

(* fetchPeriod resolves with a snapshot; scoreEntries runs on it.          *)
Fetch(r, snapshots) ==
    /\ runs[r].pc = "fetch"
    /\ \E raw \in snapshots :
          /\ runs' = [runs EXCEPT ![r] =
                         AfterPhase1(@, Len(cycles) + 1, scoreEntries(raw, opts.selectCount))]
          /\ cycles' = Append(cycles,
                              NewCycle(PeriodOf(runs[r]), raw, runs'[r].ranked, "running"))
    /\ UNCHANGED <<helperVars, opts, scoreIn, scoreOut, timer, intervals, started,
                   committed>>

(* fetchPeriod throws (HTTP error).                                        *)
FetchFail(r) ==
    /\ runs[r].pc = "fetch"
    /\ cycles' = Append(cycles, NewCycle(PeriodOf(runs[r]), <<>>, <<>>, "failed"))
    /\ runs' = [runs EXCEPT ![r] = EndCycle(@, FALSE)]
    /\ UNCHANGED <<helperVars, opts, scoreIn, scoreOut, timer, intervals, started,
                   committed>>

ToEnrich(run) ==
    {run.ranked[i].address : i \in 1..enrichTarget(run.ranked, opts)}

(* applyAddressStats resolves: the fetched stats are applied.              *)
(* uniform: every address gets the same outcome.                           *)
Stats(r, outcomes, uniform) ==
    /\ runs[r].pc = "stats"
    /\ \E outcome \in [ToEnrich(runs[r]) -> outcomes] :
          /\ uniform => \A a, b \in DOMAIN outcome : outcome[a] = outcome[b]
          /\ runs' = [runs EXCEPT ![r] =
                      [@ EXCEPT !.ranked =
                                    applyAddressStats(@, enrichTarget(@, opts),
                                                      OutcomeMap(outcome)),
                                !.statsOutcome = outcome,
                                !.pc = "series"]]
    /\ UNCHANGED <<helperVars, opts, scoreIn, scoreOut, timer, intervals, started,
                   committed, cycles>>

(* fetchPortfolioSeriesBatch resolves; the re-filter and the weights       *)
(* follow synchronously.                                                   *)
Series(r, outcomes, uniform) ==
    /\ runs[r].pc = "series"
    /\ \E outcome \in [ToEnrich(runs[r]) -> outcomes] :
          /\ uniform => \A a, b \in DOMAIN outcome : outcome[a] = outcome[b]
          /\ runs' = [runs EXCEPT ![r] =
                         [@ EXCEPT !.ranked = Refilter(@, opts.selectCount),
                                   !.series = SeriesMap(outcome, PeriodOf(runs[r])),
                                   !.seriesOutcome = outcome,
                                   !.pc = "connect"]]
    /\ UNCHANGED <<helperVars, opts, scoreIn, scoreOut, timer, intervals, started,
                   committed, cycles>>

(* Variant: client.release() is called at the end of the try block and    *)
(* not in a finally block.                                                 *)
ClientReleaseOnSuccess(cycle, exit) ==
    [cycle EXCEPT !.exit = exit,
                  !.releases = IF exit \in {"commit", "emptyCommit"} THEN @ + 1 ELSE @]

(* finally { client.release() }: runs on every way out of the try block.   *)
ClientRelease(cycle, exit) ==
    [cycle EXCEPT !.exit = exit, !.releases = @ + 1]

(* pool.connect() resolves: a connection is checked out.                   *)
Connect(r) ==
    /\ runs[r].pc = "connect"
    /\ runs' = [runs EXCEPT ![r] = [@ EXCEPT !.pc = "begin"]]
    /\ cycles' = [cycles EXCEPT ![runs[r].id].checkouts = @ + 1]
    /\ UNCHANGED <<helperVars, opts, scoreIn, scoreOut, timer, intervals, started,
                   committed>>

(* getPool() or pool.connect() rejects: no transaction was opened.         *)
ConnectFail(r) ==
    /\ runs[r].pc = "connect"
    /\ runs' = [runs EXCEPT ![r] = EndCycle(@, FALSE)]
    /\ SetCycle(runs[r].id, "state", "failed")
    /\ UNCHANGED <<helperVars, opts, scoreIn, scoreOut, timer, intervals, started,
                   committed>>

Tracked(run) == Slice(run.ranked, enrichCount(opts))

RunPoints(run) ==
    IF Len(Tracked(run)) = 0 THEN EmptyBag
    ELSE PnlPoints(PeriodOf(run), Stamp(Tracked(run), run.id), run.series, run.id)

EntryChunk(entries, k) ==
    SubSeq(entries, k * entryChunkSize + 1, Min((k + 1) * entryChunkSize, Len(entries)))

(* The statement a transaction executes at each position, and the next     *)
(* position.  Nothing is visible to other connections before COMMIT.       *)
TxStep(run, dbp) ==
    CASE run.pc = "begin" -> [run EXCEPT !.pc = "delE", !.tx = NoTx]
      [] run.pc = "delE" ->
             [run EXCEPT !.pc = "delP", !.tx = TxDeleteEntries(@, dbp)]
      [] run.pc = "delP" ->
             [run EXCEPT !.pc = IF Len(run.ranked) = 0 THEN "commit" ELSE "insE",
                         !.tx = TxDeletePoints(@, dbp)]
      [] run.pc = "insE" ->
             [run EXCEPT
                 !.tx = TxInsertEntries(@, Stamp(EntryChunk(run.ranked, run.k), run.id)),
                 !.k = IF (run.k + 1) * entryChunkSize < Len(run.ranked)
                       THEN run.k + 1 ELSE 0,
                 !.pc = IF (run.k + 1) * entryChunkSize < Len(run.ranked) THEN "insE"
                        ELSE IF RunPoints(run) = EmptyBag THEN "commit"
                        ELSE "insP"]
      [] run.pc = "insP" ->
             [run EXCEPT !.pc = "commit", !.tx = TxInsertPoints(@, RunPoints(run))]

(* BEGIN, a DELETE or an INSERT of persistPeriod succeeds.                 *)
Statement(r) ==
    /\ runs[r].pc \in TxPcs \ {"commit"}
    /\ runs' = [runs EXCEPT ![r] = TxStep(@, committed[PeriodOf(@)])]
    /\ UNCHANGED <<helperVars, opts, scoreIn, scoreOut, timer, intervals, started,
                   committed, cycles>>

(* A statement of the transaction (COMMIT included) fails: catch.          *)
StatementFail(r) ==
    /\ runs[r].pc \in TxPcs
    /\ runs' = [runs EXCEPT ![r] = [@ EXCEPT !.pc = "rollback"]]
    /\ UNCHANGED <<helperVars, opts, scoreIn, scoreOut, timer, intervals, started,
                   committed, cycles>>

(* Variant: the catch block rolls back but does not rethrow, so            *)
(* refreshPeriod goes on to publishTopCandidates.                          *)
RollbackSwallowed(r) ==
    /\ runs[r].pc = "rollback"
    /\ runs' = [runs EXCEPT ![r] =
                   IF Len(Slice(@.ranked, opts.selectCount)) = 0
                   THEN EndCycle(@, FALSE)
                   ELSE [@ EXCEPT !.pc = "publish", !.k = 0, !.tx = NoTx]]
    /\ cycles' = [cycles EXCEPT ![runs[r].id] =
                      ClientRelease([@ EXCEPT !.state = "failed"], "rollback")]
    /\ UNCHANGED <<helperVars, opts, scoreIn, scoreOut, timer, intervals, started,
                   committed>>

(* ROLLBACK, release, and the error is thrown to refreshPeriod's caller.   *)
Rollback(r) ==
    /\ runs[r].pc = "rollback"
    /\ runs' = [runs EXCEPT ![r] = EndCycle(@, FALSE)]
    /\ cycles' = [cycles EXCEPT ![runs[r].id] =
                      ClientRelease([@ EXCEPT !.state = "failed"], "rollback")]
    /\ UNCHANGED <<helperVars, opts, scoreIn, scoreOut, timer, intervals, started,
                   committed>>

(* ROLLBACK itself fails in the catch block: its error is thrown instead,  *)
(* after the finally block.                                                *)
RollbackFail(r) ==
    /\ runs[r].pc = "rollback"
    /\ runs' = [runs EXCEPT ![r] = EndCycle(@, FALSE)]
    /\ cycles' = [cycles EXCEPT ![runs[r].id] =
                      ClientRelease([@ EXCEPT !.state = "failed"], "rollbackFailed")]
    /\ UNCHANGED <<helperVars, opts, scoreIn, scoreOut, timer, intervals, started,
                   committed>>

TopCandidates(run) == Slice(run.ranked, opts.selectCount)

(* COMMIT succeeds; publishTopCandidates starts.                           *)
Commit(r) ==
    /\ runs[r].pc = "commit"
    /\ LET run == runs[r]
           p == PeriodOf(run)
       IN /\ committed' = [committed EXCEPT ![p] = TxCommit(@, run.tx)]
          /\ cycles' = [cycles EXCEPT
                           ![run.id] =
                               ClientRelease(
                                   [@ EXCEPT
                                       !.state = "committed",
                                       !.persisted = run.ranked,
                                       !.rows = CycleRows(p, run.ranked, Tracked(run),
                                                          run.series, run.id)],
                                   IF Len(run.ranked) = 0 THEN "emptyCommit"
                                   ELSE "commit")]
          /\ runs' = [runs EXCEPT ![r] =
                         IF Len(TopCandidates(run)) = 0 THEN EndCycle(run, TRUE)
                         ELSE [run EXCEPT !.pc = "publish", !.k = 0, !.tx = NoTx]]
    /\ UNCHANGED <<helperVars, opts, scoreIn, scoreOut, timer, intervals, started>>

CandidateEvent(period, entry, delivered) ==
    [address |-> entry.address, period |-> period, rank |-> entry.rank,
     weight |-> entry.weight, score |-> entry.score, delivered |-> delivered]

(* Variant: a rejected publishCandidate call is not caught.                *)
PublishNoCatch(r) ==
    /\ runs[r].pc = "publish"
    /\ LET run == runs[r]
           entry == TopCandidates(run)[run.k + 1]
       IN \E delivered \in BOOLEAN :
             /\ cycles' = [cycles EXCEPT ![run.id].events =
                               Append(@, CandidateEvent(PeriodOf(run), entry, delivered))]
             /\ runs' = [runs EXCEPT ![r] =
                            IF ~delivered THEN EndCycle(run, FALSE)
                            ELSE IF run.k + 1 < Len(TopCandidates(run))
                            THEN [run EXCEPT !.k = run.k + 1]
                            ELSE EndCycle(run, TRUE)]
    /\ UNCHANGED <<helperVars, opts, scoreIn, scoreOut, timer, intervals, started,
                   committed>>

(* One publishCandidate call settles (resolved or rejected and logged).    *)
Publish(r) ==
    /\ runs[r].pc = "publish"
    /\ LET run == runs[r]
           entry == TopCandidates(run)[run.k + 1]
       IN /\ \E delivered \in BOOLEAN :
                 cycles' = [cycles EXCEPT ![run.id].events =
                               Append(@, CandidateEvent(PeriodOf(run), entry, delivered))]
          /\ runs' = [runs EXCEPT ![r] =
                         IF run.k + 1 < Len(TopCandidates(run))
                         THEN [run EXCEPT !.k = run.k + 1]
                         ELSE EndCycle(run, TRUE)]
    /\ UNCHANGED <<helperVars, opts, scoreIn, scoreOut, timer, intervals, started,
                   committed>>

----------------------------------------------------------------------------
(* Specifications                                                          *)

(* The service with its scheduler: start, ticks, stop and ensureSeeded in  *)
(* any order, every run advancing at its own pace.                         *)
SchedSnapshots ==
    {<<[address |-> Addr[1]] @@ pGood, [address |-> Addr[2]] @@ pModest>>,
     <<[address |-> Addr[2]] @@ pApiMdd>>}

SchedStats == {<<>>, <<StatsHigh>>}

SchedSeries == {<<SeriesMonth>>}

Init ==
    /\ opts = [selectCount |-> 2, periods |-> <<30>>]
    /\ scoreIn = <<>>
    /\ scoreOut = [done |-> FALSE, base |-> <<>>, out |-> <<>>]
    /\ IdleState

Next ==
    \/ Start(MaxRuns, FALSE)
    \/ Tick(MaxRuns, FALSE)
    \/ Stop
    \/ EnsureSeeded(MaxRuns, FALSE)
    \/ \E r \in DOMAIN runs : SeedCheck(r)
    \/ \E r \in DOMAIN runs : Fetch(r, SchedSnapshots)
    \/ \E r \in DOMAIN runs : FetchFail(r)
    \/ \E r \in DOMAIN runs : Stats(r, SchedStats, TRUE)
    \/ \E r \in DOMAIN runs : Series(r, SchedSeries, TRUE)
    \/ \E r \in DOMAIN runs : Connect(r)
    \/ \E r \in DOMAIN runs : ConnectFail(r)
    \/ \E r \in DOMAIN runs : Statement(r)
    \/ \E r \in DOMAIN runs : StatementFail(r)
    \/ \E r \in DOMAIN runs : Rollback(r)
    \/ \E r \in DOMAIN runs : Commit(r)
    \/ \E r \in DOMAIN runs : Publish(r)

Spec == Init /\ [][Next]_vars

(* One refresh cycle at a time: no run starts while another is in flight.  *)
NextSerial ==
    \/ Start(MaxRuns, TRUE)
    \/ Tick(MaxRuns, TRUE)
    \/ Stop
    \/ EnsureSeeded(MaxRuns, TRUE)
    \/ \E r \in DOMAIN runs : SeedCheck(r)
    \/ \E r \in DOMAIN runs : Fetch(r, SchedSnapshots)
    \/ \E r \in DOMAIN runs : FetchFail(r)
    \/ \E r \in DOMAIN runs : Stats(r, SchedStats, TRUE)
    \/ \E r \in DOMAIN runs : Series(r, SeriesOutcomes, TRUE)
    \/ \E r \in DOMAIN runs : Connect(r)
    \/ \E r \in DOMAIN runs : ConnectFail(r)
    \/ \E r \in DOMAIN runs : Statement(r)
    \/ \E r \in DOMAIN runs : StatementFail(r)
    \/ \E r \in DOMAIN runs : Rollback(r)
    \/ \E r \in DOMAIN runs : Commit(r)
    \/ \E r \in DOMAIN runs : Publish(r)

SpecSerial == Init /\ [][NextSerial]_vars

(* start(), the ticks and stop(), with no stats and no series fetched.     *)
NoOutcome == {<<>>}

RunStepStop ==
    \E r \in DOMAIN runs :
       \/ Fetch(r, SchedSnapshots)
       \/ FetchFail(r)
       \/ Stats(r, NoOutcome, TRUE)
       \/ Series(r, NoOutcome, TRUE)
       \/ Connect(r)
       \/ ConnectFail(r)
       \/ Statement(r)
       \/ StatementFail(r)
       \/ Rollback(r)
       \/ Commit(r)
       \/ Publish(r)

NextStop ==
    \/ Start(MaxRuns, TRUE)
    \/ Tick(MaxRuns, TRUE)
    \/ Stop
    \/ \E r \in DOMAIN runs : Fetch(r, SchedSnapshots)
    \/ \E r \in DOMAIN runs : FetchFail(r)
    \/ \E r \in DOMAIN runs : Stats(r, NoOutcome, TRUE)
    \/ \E r \in DOMAIN runs : Series(r, NoOutcome, TRUE)
    \/ \E r \in DOMAIN runs : Connect(r)
    \/ \E r \in DOMAIN runs : ConnectFail(r)
    \/ \E r \in DOMAIN runs : Statement(r)
    \/ \E r \in DOMAIN runs : StatementFail(r)
    \/ \E r \in DOMAIN runs : Rollback(r)
    \/ \E r \in DOMAIN runs : Commit(r)
    \/ \E r \in DOMAIN runs : Publish(r)

(* Every awaited promise of a run settles: the requests have a timeout and *)
(* the statements of the transaction end in a result or an error.  One run *)
(* at a time is in flight, so fairness of the steps of the runs is         *)
(* fairness of the run in flight.                                          *)
SpecStop == Init /\ [][NextStop]_vars /\ WF_vars(RunStepStop)

(* One refreshPeriod on a snapshot of three entries that are all handed    *)
(* to the enrichment, each address with its own outcome of the two fetches.*)
EnrichSnapshots ==
    {<<[address |-> Addr[1]] @@ pGood, [address |-> Addr[2]] @@ pModest,
       [address |-> Addr[3]] @@ pPerfectFew>>}

NextEnrich ==
    \/ Start(1, TRUE)
    \/ \E r \in DOMAIN runs : Fetch(r, EnrichSnapshots)
    \/ \E r \in DOMAIN runs : Stats(r, StatOutcomes, FALSE)
    \/ \E r \in DOMAIN runs : Series(r, SeriesOutcomes, FALSE)
    \/ \E r \in DOMAIN runs : Connect(r)
    \/ \E r \in DOMAIN runs : Statement(r)
    \/ \E r \in DOMAIN runs : Commit(r)
    \/ \E r \in DOMAIN runs : Publish(r)

SpecEnrich == Init /\ [][NextEnrich]_vars

(* One refreshAll over two periods, in either configuration order.         *)
InitRefreshAll ==
    /\ opts \in [selectCount : {2}, periods : {<<7, 30>>, <<30, 7>>}]
    /\ scoreIn = <<>>
    /\ scoreOut = [done |-> FALSE, base |-> <<>>, out |-> <<>>]
    /\ IdleState

NextRefreshAll ==
    \/ Start(1, TRUE)
    \/ \E r \in DOMAIN runs : Fetch(r, SchedSnapshots)
    \/ \E r \in DOMAIN runs : FetchFail(r)
    \/ \E r \in DOMAIN runs : Stats(r, SchedStats, TRUE)
    \/ \E r \in DOMAIN runs : Series(r, SeriesOutcomes, TRUE)
    \/ \E r \in DOMAIN runs : Connect(r)
    \/ \E r \in DOMAIN runs : ConnectFail(r)
    \/ \E r \in DOMAIN runs : Statement(r)
    \/ \E r \in DOMAIN runs : StatementFail(r)
    \/ \E r \in DOMAIN runs : Rollback(r)
    \/ \E r \in DOMAIN runs : Commit(r)
    \/ \E r \in DOMAIN runs : Publish(r)

SpecRefreshAll == InitRefreshAll /\ [][NextRefreshAll]_vars

(* One refreshPeriod execution on every snapshot, with every outcome of    *)
(* the enrichment.                                                         *)
CycleProfiles == {pGood, pModest, pApiMdd, pScalper, pPerfect}

InitCycle ==
    /\ opts \in [selectCount : {1, 2}, periods : {<<30>>}]
    /\ scoreIn = <<>>
    /\ scoreOut = [done |-> FALSE, base |-> <<>>, out |-> <<>>]
    /\ IdleState

NextCycle ==
    \/ Start(1, TRUE)
    \/ \E r \in DOMAIN runs : Fetch(r, SnapshotsUpTo(CycleProfiles, MaxEntries))
    \/ \E r \in DOMAIN runs : Stats(r, StatOutcomes, FALSE)
    \/ \E r \in DOMAIN runs : Series(r, SeriesOutcomes, TRUE)
    \/ \E r \in DOMAIN runs : Connect(r)
    \/ \E r \in DOMAIN runs : Statement(r)
    \/ \E r \in DOMAIN runs : StatementFail(r)
    \/ \E r \in DOMAIN runs : Rollback(r)
    \/ \E r \in DOMAIN runs : Commit(r)
    \/ \E r \in DOMAIN runs : Publish(r)

SpecCycle == InitCycle /\ [][NextCycle]_vars

----------------------------------------------------------------------------
(* Properties                                                              *)

Periods == Range(opts.periods)

CommittedCycles(p) ==
    {c \in DOMAIN cycles : cycles[c].period = p /\ cycles[c].state = "committed"}

Addresses(list) == {list[i].address : i \in 1..Len(list)}

TopK(list) == Slice(list, opts.selectCount)

(* C1: for every period, the committed rows of the two tables that a       *)
(* reader can see are at every moment the complete rows of one committed   *)
(* cycle of the period (or the empty tables before the first commit),      *)
(* never a part of a cycle or a mixture of cycles.                         *)
C1_ReadersSeeOneWholeCycle ==
    \A p \in Periods :
        \/ committed[p] = EmptyTables
        \/ \E c \in CommittedCycles(p) : committed[p] = cycles[c].rows

(* C2: no two refreshPeriod executions for the same period are in flight   *)
(* at the same time.                                                       *)
C2_NoOverlappingCycles ==
    \A r1, r2 \in DOMAIN runs :
        (r1 # r2 /\ InCycle(runs[r1]) /\ InCycle(runs[r2]))
            => PeriodOf(runs[r1]) # PeriodOf(runs[r2])

(* C3: a cycle that has published a CandidateEvent has committed its       *)
(* persistPeriod transaction, at the moment of the first event and ever    *)
(* after; a cycle whose persistence failed has published nothing.          *)
C3_PublishOnlyAfterCommit ==
    \A c \in DOMAIN cycles :
        cycles[c].events # <<>> => cycles[c].state = "committed"

C3_Witness ==
    /\ \E c \in DOMAIN cycles :
          cycles[c].state = "committed" /\ cycles[c].events # <<>>
    /\ \E c \in DOMAIN cycles :
          cycles[c].state = "failed" /\ cycles[c].phase1 # <<>>

(* C4: the ranks of the entries committed for a period are exactly 1..N,   *)
(* N the number of committed entries.                                      *)
C4_RanksAreOneToN ==
    \A p \in Periods :
        {row.rank : row \in committed[p].entries}
            = 1..Cardinality(committed[p].entries)

(* C5: every entry committed for a period whose rank is greater than       *)
(* selectCount has weight 0.                                               *)
C5_ZeroWeightBelowSelect ==
    \A p \in Periods : \A row \in committed[p].entries :
        row.rank > opts.selectCount => row.weight = Zero

(* C6: no entry committed for a period carries filtered = true, in the     *)
(* entry or in its stored meta.                                            *)
C6_NoFilteredPersisted ==
    \A p \in Periods : \A row \in committed[p].entries :
        ~row.filtered /\ ~row.meta.filtered

(* C7: a cycle that committed and whose raw snapshot had at least one      *)
(* entry committed at least one ranked entry.                              *)
C7_NonEmptyPeriod ==
    \A c \in DOMAIN cycles :
        (cycles[c].state = "committed" /\ cycles[c].raw # <<>>)
            => cycles[c].rows.entries # {}

(* C8: in the output of scoreEntries, with topK the first                  *)
(* min(selectCount, N) entries and S the sum of max(score, 0) over topK:   *)
(* every entry outside topK has weight 0; if S = 0 every weight is 0;      *)
(* otherwise entry i of topK has weight max(score_i, 0) / S and the topK   *)
(* weights sum to 1.                                                       *)
C8_Phase1Weights ==
    scoreOut.done =>
        LET out == scoreOut.out
            K == Min(opts.selectCount, Len(out))
            S == SumPosScores(SubSeq(out, 1, K))
        IN /\ \A i \in (K + 1)..Len(out) : out[i].weight = Zero
           /\ S = 0 => \A i \in 1..Len(out) : out[i].weight = Zero
           /\ S > 0 =>
                 /\ \A i \in 1..K :
                       out[i].weight.num * S = Max(out[i].score, 0) * out[i].weight.den
                 /\ SumWeights(SubSeq(out, 1, K)) = One

C8_Witness ==
    /\ scoreOut.done
    /\ Len(scoreOut.out) > opts.selectCount
    /\ opts.selectCount > 1
    /\ \A i \in 1..opts.selectCount : scoreOut.out[i].score > 0

(* C9: in the list a cycle hands to persistPeriod, after the re-filter,    *)
(* the weights of the first min(selectCount, N) entries sum to 1 if one    *)
(* of them has score > 0 and to 0 otherwise, and every entry of the list   *)
(* is an entry of the phase-1 list.                                        *)
PastPhase2(run) == InCycle(run) /\ run.pc \notin {"fetch", "stats", "series"}

C9_Phase2Weights ==
    \A r \in DOMAIN runs :
        PastPhase2(runs[r]) =>
            /\ SumWeights(TopK(runs[r].ranked))
                  = IF \E e \in Range(TopK(runs[r].ranked)) : e.score > 0
                    THEN One ELSE Zero
            /\ Addresses(runs[r].ranked) \subseteq Addresses(cycles[runs[r].id].phase1)

C9_Witness ==
    \E r \in DOMAIN runs :
        /\ runs[r].pc = "commit"
        /\ Len(runs[r].ranked) < Len(cycles[runs[r].id].phase1)
        /\ Len(runs[r].ranked) >= opts.selectCount
        /\ opts.selectCount > 1
        /\ runs[r].ranked[1].score > 0

(* C10: a raw entry whose stats.maxDrawdown is above maxDrawdownLimit is   *)
(* not in the output of scoreEntries, unless no entry survived the drops   *)
(* (every entry of the output is then one the drops would have removed).   *)
OverLimit(entry) ==
    entry.statsMdd # None
        /\ Val(entry.statsMdd) > DEFAULT_SCORING_PARAMS.maxDrawdownLimit

FallbackTaken(out) ==
    \A i \in 1..Len(out) :
        out[i].filtered
            \/ (out[i].winRate >= 9990 /\ out[i].executedOrders >= suspiciousMinTrades)

C10_HardDrawdownFilter ==
    scoreOut.done =>
        \A i \in 1..Len(scoreIn) :
            OverLimit(scoreIn[i]) =>
                \/ scoreIn[i].address \notin Addresses(scoreOut.out)
                \/ FallbackTaken(scoreOut.out)

C10_Witness ==
    /\ scoreOut.done
    /\ scoreOut.out # <<>>
    /\ ~FallbackTaken(scoreOut.out)
    /\ \E i \in 1..Len(scoreIn) :
          OverLimit(scoreIn[i]) /\ scoreIn[i].address \notin Addresses(scoreOut.out)

(* C11 as stated: a raw entry with executedOrders above the hard trade     *)
(* limit is not in the output of scoreEntries (unless the fallback         *)
(* returned the pre-drop list) and is marked scalping_penalty; an entry    *)
(* with exactly 200 executedOrders is not filtered by the trade limit.     *)
OverTradeLimit(entry) == entry.executedOrders > maxTradesHardLimit

C11_ScalperMarkedScalping ==
    scoreOut.done =>
        \A i \in 1..Len(scoreIn) :
            /\ OverTradeLimit(scoreIn[i]) =>
                  /\ \/ scoreIn[i].address \notin Addresses(scoreOut.out)
                     \/ FallbackTaken(scoreOut.out)
                  /\ scoreOut.base[i].filtered
                  /\ scoreOut.base[i].filterReason = "scalping_penalty"
            /\ scoreIn[i].executedOrders = maxTradesHardLimit =>
                  scoreOut.base[i].filterReason # "scalping_penalty"

(* C11 amended: such an entry is absent from the output (same fallback     *)
(* caveat) and marked filtered, with reason scalping_penalty unless its    *)
(* API drawdown is above maxDrawdownLimit, in which case the drawdown      *)
(* filter, which runs first, marks it max_drawdown_exceeded; an entry      *)
(* with exactly 200 executedOrders is not filtered by the trade limit.     *)
C11_HardTradeFilter ==
    scoreOut.done =>
        \A i \in 1..Len(scoreIn) :
            /\ OverTradeLimit(scoreIn[i]) =>
                  /\ \/ scoreIn[i].address \notin Addresses(scoreOut.out)
                     \/ FallbackTaken(scoreOut.out)
                  /\ scoreOut.base[i].filtered
                  /\ scoreOut.base[i].filterReason =
                        IF OverLimit(scoreIn[i]) THEN "max_drawdown_exceeded"
                        ELSE "scalping_penalty"
            /\ scoreIn[i].executedOrders = maxTradesHardLimit =>
                  scoreOut.base[i].filterReason # "scalping_penalty"

C11_Witness ==
    /\ scoreOut.done
    /\ ~FallbackTaken(scoreOut.out)
    /\ \E i \in 1..Len(scoreIn) :
          /\ OverTradeLimit(scoreIn[i]) /\ ~OverLimit(scoreIn[i])
          /\ scoreIn[i].address \notin Addresses(scoreOut.out)
    /\ \E i \in 1..Len(scoreIn) :
          /\ OverTradeLimit(scoreIn[i]) /\ OverLimit(scoreIn[i])
          /\ scoreIn[i].address \notin Addresses(scoreOut.out)
    /\ \E i \in 1..Len(scoreIn) :
          /\ scoreIn[i].executedOrders = maxTradesHardLimit
          /\ scoreIn[i].address \in Addresses(scoreOut.out)

(* The drawdown of a pnlList: over its finite values, normalised to start  *)
(* at 0, some value lies below the running peak (when positive) by more    *)
(* than maxDrawdownLimit of that peak.                                     *)
PathDrawdownOver(entry) ==
    LET list == entry.pnlList
        idx == {k \in 1..Len(list) : list[k].value # None}
        first == CHOOSE k \in idx : \A m \in idx : k <= m
        x(k) == Val(list[k].value) - Val(list[first].value)
        peak(j) == CHOOSE v \in {x(k) : k \in {m \in idx : m <= j}} :
                       \A k \in {m \in idx : m <= j} : v >= x(k)
    IN /\ Cardinality(idx) >= 2
       /\ \E j \in idx :
             /\ peak(j) > 0
             /\ (peak(j) - x(j)) * SCALE
                    > DEFAULT_SCORING_PARAMS.maxDrawdownLimit * peak(j)

(* C12 as stated: a raw entry without API drawdown stats whose pnlList     *)
(* has a drawdown above maxDrawdownLimit is marked filtered with reason    *)
(* max_drawdown_exceeded and score 0, and is absent from the output of     *)
(* scoreEntries whenever some other entry survives.                        *)
C12_PathDrawdownMarked ==
    scoreOut.done =>
        \A i \in 1..Len(scoreIn) :
            (scoreIn[i].statsMdd = None /\ PathDrawdownOver(scoreIn[i])) =>
                /\ scoreOut.base[i].filtered
                /\ scoreOut.base[i].filterReason = "max_drawdown_exceeded"
                /\ scoreOut.base[i].score = 0
                /\ \/ scoreIn[i].address \notin Addresses(scoreOut.out)
                   \/ FallbackTaken(scoreOut.out)

(* C12 amended: the same for the entries whose executedOrders is at most   *)
(* the hard trade limit (above it the trade filter, which runs before the  *)
(* pnlList is looked at, marks the entry).                                 *)
C12_PathDrawdownFilter ==
    scoreOut.done =>
        \A i \in 1..Len(scoreIn) :
            (/\ scoreIn[i].statsMdd = None
             /\ PathDrawdownOver(scoreIn[i])
             /\ ~OverTradeLimit(scoreIn[i])) =>
                /\ scoreOut.base[i].filtered
                /\ scoreOut.base[i].filterReason = "max_drawdown_exceeded"
                /\ scoreOut.base[i].score = 0
                /\ \/ scoreIn[i].address \notin Addresses(scoreOut.out)
                   \/ FallbackTaken(scoreOut.out)

C12_Witness ==
    /\ scoreOut.done
    /\ ~FallbackTaken(scoreOut.out)
    /\ \E i \in 1..Len(scoreIn) :
          /\ scoreIn[i].statsMdd = None /\ PathDrawdownOver(scoreIn[i])
          /\ ~OverTradeLimit(scoreIn[i])
          /\ scoreOut.base[i].filterReason = "max_drawdown_exceeded"
          /\ scoreIn[i].address \notin Addresses(scoreOut.out)
    /\ \E i \in 1..Len(scoreIn) :
          /\ scoreIn[i].statsMdd = None /\ ~PathDrawdownOver(scoreIn[i])
          /\ Len(scoreIn[i].pnlList) >= 2
          /\ scoreIn[i].address \in Addresses(scoreOut.out)

(* C13: unless the fallback returned the pre-drop list, a raw entry that   *)
(* the mapping did not mark filtered is missing from the output of         *)
(* scoreEntries if and only if its winRate clamped to [0, 1] is >= 0.999   *)
(* and its executedOrders is >= 10.                                        *)
PerfectRecord(entry) ==
    /\ (IF entry.winRate < 0 THEN 0
        ELSE IF entry.winRate > SCALE THEN SCALE ELSE entry.winRate) * 1000
           >= 999 * SCALE
    /\ entry.executedOrders >= 10

C13_SuspiciousDropped ==
    (scoreOut.done /\ ~FallbackTaken(scoreOut.out)) =>
        \A i \in 1..Len(scoreIn) :
            ~scoreOut.base[i].filtered =>
                (scoreIn[i].address \notin Addresses(scoreOut.out)
                    <=> PerfectRecord(scoreIn[i]))

C13_Witness ==
    /\ scoreOut.done
    /\ ~FallbackTaken(scoreOut.out)
    /\ \E i \in 1..Len(scoreIn) :
          /\ scoreIn[i].winRate = SCALE /\ scoreIn[i].executedOrders = 50
          /\ scoreIn[i].address \notin Addresses(scoreOut.out)
    /\ \E i \in 1..Len(scoreIn) :
          /\ scoreIn[i].winRate = SCALE /\ scoreIn[i].executedOrders = 5
          /\ scoreIn[i].address \in Addresses(scoreOut.out)

(* C14: when every raw entry is either marked filtered or a suspicious     *)
(* perfect record, scoreEntries returns one entry per raw entry, ranked    *)
(* 1..N by descending score, the first min(selectCount, N) weighted by     *)
(* max(score, 0) over their sum (0 when the sum is 0) and the rest 0.      *)
NoneSurvives ==
    \A i \in 1..Len(scoreIn) :
        scoreOut.base[i].filtered \/ PerfectRecord(scoreIn[i])

C14_FallbackReturnsAll ==
    (scoreOut.done /\ NoneSurvives) =>
        LET out == scoreOut.out
            K == Min(opts.selectCount, Len(out))
            S == SumPosScores(SubSeq(out, 1, K))
        IN /\ Len(out) = Len(scoreIn)
           /\ Addresses(out) = Addresses(scoreIn)
           /\ \A i \in 1..Len(out) : out[i].rank = i
           /\ \A i \in 1..(Len(out) - 1) : out[i].score >= out[i + 1].score
           /\ \A i \in 1..Len(out) :
                 IF i <= K /\ S > 0
                 THEN out[i].weight.num * S
                          = Max(out[i].score, 0) * out[i].weight.den
                 ELSE out[i].weight = Zero

C14_Witness ==
    /\ scoreOut.done
    /\ NoneSurvives
    /\ Len(scoreOut.out) = 3
    /\ \E i \in 1..3 : scoreOut.out[i].filtered
    /\ \E i \in 1..3 : ~scoreOut.out[i].filtered /\ scoreOut.out[i].weight # Zero

(* C15: in the output of scoreEntries the entry at position i (from 1)    *)
(* has rank i, so the ranks are exactly 1..N, and an entry of smaller      *)
(* rank never has a smaller score than an entry of greater rank.           *)
C15_RankedByScore ==
    scoreOut.done =>
        /\ \A i \in 1..Len(scoreOut.out) : scoreOut.out[i].rank = i
        /\ \A i, j \in 1..Len(scoreOut.out) :
              scoreOut.out[i].rank < scoreOut.out[j].rank
                  => scoreOut.out[i].score >= scoreOut.out[j].score

C15_Witness ==
    /\ scoreOut.done
    /\ Len(scoreOut.out) = 3
    /\ scoreOut.out[1].score > scoreOut.out[2].score
    /\ scoreOut.out[2].score > scoreOut.out[3].score
    /\ scoreOut.out[1].address = Addr[3]
    /\ scoreOut.out[3].address = Addr[1]

(* C16: every entry committed for a period has a statMaxDrawdown that is   *)
(* at most maxDrawdownLimit, whether the entry was one of the entries      *)
(* handed to the enrichment or ranked below them.                          *)
C16_PersistedWithinDrawdown ==
    \A p \in Periods : \A row \in committed[p].entries :
        row.statMaxDrawdown * 100 <= 80 * SCALE

(* A committed cycle: a phase-1 entry ranked below the enriched ones was   *)
(* over the limit and is not among the committed rows, which are not empty.*)
C16_Witness ==
    \E c \in DOMAIN cycles :
        /\ cycles[c].state = "committed"
        /\ committed[cycles[c].period].entries # {}
        /\ \E i \in 1..Len(cycles[c].phase1) :
              /\ i > enrichTarget(cycles[c].phase1, opts)
              /\ cycles[c].phase1[i].statMaxDrawdown * 100 > 80 * SCALE
              /\ \A row \in committed[cycles[c].period].entries :
                    row.address # cycles[c].phase1[i].address

(* The service was started and the last call of start() or stop() was a   *)
(* stop(): the interval is cleared.  A refreshAll that is then in the      *)
(* cycle of its first period was begun by start() or by a tick before      *)
(* that stop(), so the cycle was in flight when stop() was called.         *)
Stopped == timer = 0 /\ started > 0

InFlightAtStop(run) ==
    Stopped /\ run.kind = "refreshAll" /\ run.pidx = 1 /\ InCycle(run) /\ run.id # 0

(* C17: a cycle that was in flight when stop() was called publishes no     *)
(* candidate event after the stop and does not commit: the rows of the     *)
(* period stay those of the prior cycle.                                   *)
C17_StopCancelsCycle ==
    [][\A r \in DOMAIN runs :
          InFlightAtStop(runs[r]) =>
              /\ cycles'[runs[r].id].events = cycles[runs[r].id].events
              /\ cycles'[runs[r].id].state = "committed"
                     => cycles[runs[r].id].state = "committed"]_vars

(* C18: while the service is stopped only start() begins a refreshAll (a   *)
(* run that begins without a start() is an ensureSeeded call, not a tick), *)
(* and a run that is in a cycle when the service is stopped goes on to     *)
(* the end of its cycles (one run at a time is in flight).                 *)
C18_StopSuppressesTicks ==
    /\ [][(timer = 0 /\ started' = started /\ Len(runs') > Len(runs))
              => runs'[Len(runs')].kind # "refreshAll"]_vars
    /\ (Stopped /\ \E r \in DOMAIN runs : InCycle(runs[r]))
          ~> (\A r \in DOMAIN runs : Finished(runs[r]))

C18_Witness ==
    /\ Stopped
    /\ \E r \in DOMAIN runs :
          /\ runs[r].kind = "refreshAll"
          /\ runs[r].pc = "publish"
          /\ cycles[runs[r].id].events # <<>>

(* C19: one call of refreshAll begins the cycles of the configured         *)
(* periods in configuration order, each once and the next only when the    *)
(* one before has ended, whether it failed or not; refreshAll does not     *)
(* reject, and when it has resolved every period has had its cycle.        *)
CyclePeriods == [c \in DOMAIN cycles |-> cycles[c].period]

C19_EveryPeriodOnce ==
    \A r \in DOMAIN runs :
        runs[r].kind = "refreshAll" =>
            /\ runs[r].pc # "failed"
            /\ CyclePeriods = SubSeq(opts.periods, 1, Len(cycles))
            /\ InCycle(runs[r]) =>
                  /\ runs[r].id \in {0, Len(cycles)}
                  /\ runs[r].pidx = IF runs[r].id = 0 THEN Len(cycles) + 1
                                    ELSE Len(cycles)
            /\ runs[r].pc = "done" => CyclePeriods = opts.periods

C19_Witness ==
    \E r \in DOMAIN runs :
        /\ runs[r].kind = "refreshAll" /\ runs[r].pc = "done"
        /\ Len(cycles) = 2
        /\ cycles[1].state = "failed"
        /\ cycles[2].state = "committed"
        /\ cycles[2].events # <<>>

(* C20: a fetch of the stats or of the series that failed for an address  *)
(* (outcome <<>>) leaves the address out of the result map: its entry is   *)
(* as phase 1 left it and it has no series; every address handed to the    *)
(* enrichment has had both fetches, the ones that succeeded are in the     *)
(* maps; and the cycle has gone on to the re-filter.                       *)
EnrichedAddresses(run) ==
    {cycles[run.id].phase1[i].address :
        i \in 1..enrichTarget(cycles[run.id].phase1, opts)}

C20_FailedFetchOmitsAddress ==
    \A r \in DOMAIN runs :
        /\ runs[r].pc = "series" =>
              /\ DOMAIN runs[r].statsOutcome = EnrichedAddresses(runs[r])
              /\ Len(runs[r].ranked) = Len(cycles[runs[r].id].phase1)
              /\ \A i \in 1..Len(runs[r].ranked) :
                    LET a == runs[r].ranked[i].address
                        so == runs[r].statsOutcome
                    IN IF a \in DOMAIN so /\ so[a] # <<>>
                       THEN runs[r].ranked[i].meta.stats = Some(so[a][1])
                       ELSE runs[r].ranked[i] = cycles[runs[r].id].phase1[i]
        /\ runs[r].pc = "connect" =>
              /\ DOMAIN runs[r].seriesOutcome = EnrichedAddresses(runs[r])
              /\ \A a \in DOMAIN runs[r].seriesOutcome :
                    IF runs[r].seriesOutcome[a] = <<>>
                    THEN a \notin DOMAIN runs[r].series
                    ELSE \A k \in 1..Len(runs[r].seriesOutcome[a][1]) :
                            WINDOW_PERIOD_MAP[runs[r].seriesOutcome[a][1][k].window]
                                    = PeriodOf(runs[r])
                                => /\ a \in DOMAIN runs[r].series
                                   /\ \E m \in 1..Len(runs[r].series[a]) :
                                         runs[r].series[a][m]
                                             = runs[r].seriesOutcome[a][1][k]
              /\ \A i \in 1..Len(runs[r].ranked) :
                    runs[r].ranked[i].statMaxDrawdown * 100 <= 80 * SCALE

(* A cycle that has published, with a failed and a successful fetch of     *)
(* each kind.                                                              *)
C20_Witness ==
    \E r \in DOMAIN runs :
        /\ runs[r].pc = "publish"
        /\ cycles[runs[r].id].state = "committed"
        /\ cycles[runs[r].id].events # <<>>
        /\ \E a, b \in DOMAIN runs[r].statsOutcome :
              runs[r].statsOutcome[a] = <<>> /\ runs[r].statsOutcome[b] # <<>>
        /\ \E a, b \in DOMAIN runs[r].seriesOutcome :
              runs[r].seriesOutcome[a] = <<>> /\ runs[r].seriesOutcome[b] # <<>>

(* C21: the publishCandidate calls of a committed cycle are, in order,     *)
(* one call for each of the first min(selectCount, N) persisted entries,   *)
(* by ascending rank; once the cycle is over every one of these entries    *)
(* has had its call, whether or not an earlier call was rejected, and the  *)
(* cycle is still committed.                                               *)
CycleOver(c) == \A r \in DOMAIN runs : runs[r].id # c

C21_PublishEachTopOnce ==
    \A c \in DOMAIN cycles :
        /\ cycles[c].events # <<>> => cycles[c].state = "committed"
        /\ cycles[c].state = "committed" =>
              /\ Len(cycles[c].events)
                     <= Min(opts.selectCount, Len(cycles[c].persisted))
              /\ \A i \in 1..Len(cycles[c].events) :
                    /\ cycles[c].events[i].address = cycles[c].persisted[i].address
                    /\ cycles[c].events[i].rank = cycles[c].persisted[i].rank
              /\ \A i, j \in 1..Len(cycles[c].events) :
                    i < j => cycles[c].events[i].rank < cycles[c].events[j].rank
              /\ CycleOver(c) =>
                    Len(cycles[c].events)
                        = Min(opts.selectCount, Len(cycles[c].persisted))

C21_Witness ==
    \E c \in DOMAIN cycles :
        /\ cycles[c].state = "committed"
        /\ CycleOver(c)
        /\ Len(cycles[c].events) = 2
        /\ Len(cycles[c].persisted) > 2
        /\ ~cycles[c].events[1].delivered
        /\ cycles[c].events[2].delivered

----------------------------------------------------------------------------
(* fetchPeriod: the pages of one leaderboard snapshot                      *)

MaxTopN == 3            \* largest opts.topN of a fetchPeriod call
PageSizes == {1, 2}     \* values of opts.pageSize

(* Math.ceil(topN / pageSize)                                              *)
pagesNeeded(top, size) == (top + size - 1) \div size

(* What the upstream may answer to one page request: ok is res.ok, json    *)
(* is whether res.json() resolves, data is the kind of payload.data        *)
(* ("absent": payload is null, has no data field, or data is null;         *)
(* "object": data is a non-iterable value; "array": data is an array of    *)
(* len entries, which may be more than the page size asked for).           *)
PageResponses(pageSize) ==
    {[ok |-> FALSE, json |-> TRUE, data |-> "absent", len |-> 0],
     [ok |-> TRUE, json |-> FALSE, data |-> "absent", len |-> 0],
     [ok |-> TRUE, json |-> TRUE, data |-> "absent", len |-> 0],
     [ok |-> TRUE, json |-> TRUE, data |-> "object", len |-> 0]}
        \cup {[ok |-> TRUE, json |-> TRUE, data |-> "array", len |-> n] :
                 n \in 0..(pageSize + 1)}

(* Variant: a short page does not end the loop.                            *)
PushPageNoBreak(p, n) ==
    [p EXCEPT !.results = @ \o [i \in 1..n |-> [page |-> p.page, index |-> i]],
              !.page = @ + 1,
              !.pc = "loop"]

(* results.push(...data); if (data.length < pageSize) break; else the next *)
(* iteration, for n entries of page p.page.                                *)
PushPage(p, n) ==
    [p EXCEPT !.results = @ \o [i \in 1..n |-> [page |-> p.page, index |-> i]],
              !.page = IF n < p.pageSize THEN @ ELSE @ + 1,
              !.pc = IF n < p.pageSize THEN "break" ELSE "loop"]

(* The body of the loop after fetch(url) resolved with res.                *)
PageReceived(p, res) ==
    IF ~res.ok \/ ~res.json \/ res.data = "object"
    THEN [p EXCEPT !.pc = "failed"]
    ELSE PushPage(p, IF res.data = "absent" THEN 0 ELSE res.len)

(* The loop condition holds: fetch(url) is called for the next page.       *)
PageRequest ==
    /\ pager.pc = "loop"
    /\ pager.page <= pagesNeeded(pager.topN, pager.pageSize)
    /\ pager' = [pager EXCEPT !.pc = "fetch", !.requests = Append(@, pager.page)]
    /\ UNCHANGED <<opts, scoreIn, scoreOut, runs, timer, intervals, started,
                   committed, cycles, request, pool, webVars>>

(* The page request settles.                                               *)
PageResponse ==
    /\ pager.pc = "fetch"
    /\ \E res \in PageResponses(pager.pageSize) :
          pager' = PageReceived([pager EXCEPT !.responses = Append(@, res)], res)
    /\ UNCHANGED <<opts, scoreIn, scoreOut, runs, timer, intervals, started,
                   committed, cycles, request, pool, webVars>>

(* return results.slice(0, topN), after the break or the last page.        *)
FetchReturn ==
    /\ \/ pager.pc = "break"
       \/ /\ pager.pc = "loop"
          /\ pager.page > pagesNeeded(pager.topN, pager.pageSize)
    /\ pager' = [pager EXCEPT !.pc = "returned",
                              !.returned = Slice(pager.results, pager.topN)]
    /\ UNCHANGED <<opts, scoreIn, scoreOut, runs, timer, intervals, started,
                   committed, cycles, request, pool, webVars>>

(* The raw entries behind the fetched positions.                           *)
RawEntries(fetched) ==
    [k \in 1..Len(fetched) |-> [address |-> Addr[k]] @@ pApiMdd]

(* refreshPeriod goes on: scoreEntries(raw) on what fetchPeriod returned.  *)
ScoreFetched ==
    /\ pager.pc = "returned"
    /\ ~scoreOut.done
    /\ scoreIn' = RawEntries(pager.returned)
    /\ scoreOut' = [done |-> TRUE, base |-> ScoreBase(scoreIn'),
                    out |-> scoreEntries(scoreIn', opts.selectCount)]
    /\ UNCHANGED <<opts, runs, timer, intervals, started, committed, cycles,
                   helperVars>>

InitFetchPeriod ==
    /\ opts = [selectCount |-> 2, periods |-> <<30>>]
    /\ scoreIn = <<>>
    /\ scoreOut = [done |-> FALSE, base |-> <<>>, out |-> <<>>]
    /\ NoCycles
    /\ pager \in [pc : {"loop"}, topN : 1..MaxTopN, pageSize : PageSizes,
                  page : {1}, results : {<<>>}, requests : {<<>>},
                  responses : {<<>>}, returned : {<<>>}]
    /\ request = NoCall
    /\ pool = NoCall

NextFetchPeriod ==
    \/ PageRequest
    \/ PageResponse
    \/ FetchReturn
    \/ ScoreFetched

SpecFetchPeriod == InitFetchPeriod /\ [][NextFetchPeriod]_vars

(* A response that is not a successful HTTP response carrying an object    *)
(* with an array data field.                                               *)
BadPage(res) == ~res.ok \/ ~res.json \/ res.data # "array"

(* C22: a page response that is not a successful HTTP response, or whose   *)
(* JSON body is not an object with an array data field, makes fetchPeriod  *)
(* fail: it is never taken for an empty or short page.                     *)
C22_BadPageFails ==
    (pager.pc # "idle" /\ pager.pc # "fetch") =>
        \A i \in 1..Len(pager.responses) :
            BadPage(pager.responses[i]) => pager.pc = "failed"

----------------------------------------------------------------------------
(* persistPeriod twice in a row, on inputs that repeat a point             *)

(* A pnlList in which the upstream repeats a timestamp.                    *)
Repeating ==
    <<[timestamp |-> 1, value |-> Some(0)], [timestamp |-> 1, value |-> Some(10)],
      [timestamp |-> 2, value |-> Some(20)]>>

pRepeat == Profile(6500, 100, 99999, None, Repeating)

PersistSnapshots ==
    {<<[address |-> Addr[1]] @@ pRepeat>>,
     <<[address |-> Addr[1]] @@ pGood>>,
     <<[address |-> Addr[1]] @@ pGood, [address |-> Addr[2]] @@ pRepeat>>}

(* A portfolio answer that carries two series with the same window name.   *)
SeriesTwice ==
    <<[window |-> "month",
       pnlHistory |-> <<[ts |-> 1, value |-> 5]>>, equityHistory |-> <<>>],
      [window |-> "month",
       pnlHistory |-> <<[ts |-> 1, value |-> 6]>>, equityHistory |-> <<>>]>>

PersistSeries == {<<>>, <<SeriesMonth>>, <<SeriesTwice>>}

NextPersist ==
    \/ Start(1, TRUE)
    \/ Tick(2, TRUE)
    \/ \E r \in DOMAIN runs : Fetch(r, PersistSnapshots)
    \/ \E r \in DOMAIN runs : Stats(r, NoOutcome, TRUE)
    \/ \E r \in DOMAIN runs : Series(r, PersistSeries, FALSE)
    \/ \E r \in DOMAIN runs : Connect(r)
    \/ \E r \in DOMAIN runs : Statement(r)
    \/ \E r \in DOMAIN runs : Commit(r)
    \/ \E r \in DOMAIN runs : Publish(r)

SpecPersist == Init /\ [][NextPersist]_vars

(* The key of a pnl_points row.                                            *)
PointKey(row) == <<row.address, row.source, row.window, row.ts>>

OneRowPerKey(points) ==
    \A x, y \in BagToSet(points) :
        /\ CopiesIn(x, points) = 1
        /\ PointKey(x) = PointKey(y) => x = y

(* C23: the pnl_points rows a replacePeriod transaction has inserted hold  *)
(* at most one row per (period, address, source, window_name, timestamp).  *)
C23_OneRowPerPointKey ==
    \A r \in DOMAIN runs : OneRowPerKey(runs[r].tx.insP)

(* Rows without the mark of the cycle that wrote them: the timestamp       *)
(* columns aside, what the tables hold.                                    *)
Strip(row) == [f \in DOMAIN row \ {"by"} |-> row[f]]

UnstampBag(b) ==
    LET es == SetToSeq(DOMAIN b)
    IN BagSum([i \in 1..Len(es) |-> (Strip(es[i]) :> b[es[i]])])

Unstamp(tables) ==
    [entries |-> {Strip(e) : e \in tables.entries},
     points |-> UnstampBag(tables.points)]

(* What persistPeriod is asked to store by a run that is about to commit.  *)
Requested(run) ==
    Unstamp(CycleRows(PeriodOf(run), run.ranked, Tracked(run), run.series, run.id))

LastCommitted(p) ==
    CHOOSE c \in CommittedCycles(p) : \A d \in CommittedCycles(p) : d <= c

(* C24: a persistPeriod that commits right after a committed persistPeriod *)
(* of the same period with identical entries, tracked entries and series   *)
(* leaves the rows of both tables as the first one left them, the          *)
(* timestamp columns aside.                                                *)
C24_SecondPersistIdempotent ==
    [][\A r \in DOMAIN runs :
          (/\ runs[r].pc = "commit"
           /\ cycles'[runs[r].id].state = "committed"
           /\ CommittedCycles(PeriodOf(runs[r])) # {}
           /\ committed[PeriodOf(runs[r])]
                 = cycles[LastCommitted(PeriodOf(runs[r]))].rows
           /\ Unstamp(cycles[LastCommitted(PeriodOf(runs[r]))].rows)
                 = Requested(runs[r]))
          => Unstamp(committed'[PeriodOf(runs[r])])
                = Unstamp(committed[PeriodOf(runs[r])])]_vars

C24_Witness ==
    /\ Len(cycles) = 2
    /\ cycles[1].state = "committed" /\ cycles[2].state = "committed"
    /\ Unstamp(cycles[1].rows) = Unstamp(cycles[2].rows)
    /\ committed[30] = cycles[2].rows
    /\ ~OneRowPerKey(cycles[2].rows.points)
    /\ Cardinality(cycles[2].rows.entries) = 2

----------------------------------------------------------------------------
(* scoreEntries on raw entries whose numbers are missing or not numeric    *)

(* A numeric field of a raw entry as the upstream sends it: a number, no   *)
(* field at all, or a text that is not a number.                           *)
Num(v) == [kind |-> "number", v |-> v]
Missing == [kind |-> "missing", v |-> 0]
Text == [kind |-> "text", v |-> 0]

(* Number(field ?? 0): None stands for NaN.                                *)
NumberOf(field) ==
    CASE field.kind = "number" -> Some(field.v)
      [] field.kind = "missing" -> Some(0)
      [] OTHER -> None

(* The raw entries of this part: winRate and executedOrders are numbers or *)
(* missing, realizedPnl may also be a text.                                *)
RawProfiles ==
    [winRate : {Num(6500), Missing}, executedOrders : {Num(100), Num(5), Missing},
     realizedPnl : {Num(99999), Missing, Text}, pnlList : {Rising, Crash}]

RawSnapshots ==
    UNION {{[i \in 1..n |-> [address |-> Addr[i]] @@ f[i]] : f \in [1..n -> RawProfiles]}
              : n \in 1..2}

(* The entry as the map callback of scoreEntries reads it; a NaN pnl is    *)
(* held as 0 here and told apart by the callers through NumberOf.          *)
Coerced(raw) ==
    [address |-> raw.address]
        @@ Profile(Val(NumberOf(raw.winRate)), Val(NumberOf(raw.executedOrders)),
                   IF NumberOf(raw.realizedPnl) = None THEN 0
                   ELSE Val(NumberOf(raw.realizedPnl)),
                   None, raw.pnlList)

(* computePerformanceScore when realizedPnl is NaN: the inputs it checks   *)
(* are finite, computeNormalizedPnl(NaN) is NaN (NaN <= 0 is false, and    *)
(* Math.min(1, Math.max(0, NaN)) is NaN), so are the weighted pnl and the  *)
(* sum; the score is set to 0 and the details are returned as computed.    *)
NaNPnlResult(result) ==
    IF result.filtered THEN result @@ [notFinite |-> {}]
    ELSE [result EXCEPT !.score = 0]
             @@ [notFinite |-> {"normalizedPnl", "weightedComponents.pnl"}]

RawResult(raw, result) ==
    IF NumberOf(raw.realizedPnl) = None THEN NaNPnlResult(result)
    ELSE result @@ [notFinite |-> {}]

(* The map callback of scoreEntries on a raw entry: meta.scoringDetails    *)
(* are result.details, of which notFinite names the NaN components.        *)
ScoreOneRaw(raw) ==
    IF \/ apiMaxDrawdown(Coerced(raw)) > DEFAULT_SCORING_PARAMS.maxDrawdownLimit
       \/ Coerced(raw).executedOrders > maxTradesHardLimit
    THEN ScoreOne(Coerced(raw)) @@ [notFinite |-> {}]
    ELSE [notFinite |->
              RawResult(raw,
                  computePerformanceScore(
                      ScoringStats(Coerced(raw), Coerced(raw).executedOrders,
                                   NumWins(Coerced(raw).executedOrders,
                                           clamp(Coerced(raw).winRate, 0, SCALE))),
                      DEFAULT_SCORING_PARAMS)).notFinite]
         @@ Scored(Coerced(raw),
                RawResult(raw,
                  computePerformanceScore(
                      ScoringStats(Coerced(raw), Coerced(raw).executedOrders,
                                   NumWins(Coerced(raw).executedOrders,
                                           clamp(Coerced(raw).winRate, 0, SCALE))),
                      DEFAULT_SCORING_PARAMS)))

ScoreBaseRaw(raws) == [i \in 1..Len(raws) |-> ScoreOneRaw(raws[i])]

InitRaw ==
    /\ opts \in [selectCount : {1, 2}, periods : {<<30>>}]
    /\ scoreIn \in RawSnapshots
    /\ scoreOut = [done |-> FALSE, base |-> <<>>, out |-> <<>>]
    /\ IdleState

ScoreRawCall ==
    /\ ~scoreOut.done
    /\ scoreOut' = [done |-> TRUE, base |-> ScoreBaseRaw(scoreIn),
                    out |-> WeighSorted(
                                SortByScoreDesc(ScoreSurvivors(ScoreBaseRaw(scoreIn))),
                                opts.selectCount)]
    /\ UNCHANGED <<opts, scoreIn, runs, timer, intervals, started, committed,
                   cycles, helperVars>>

SpecRaw == InitRaw /\ [][ScoreRawCall]_vars

(* C25: every entry scoreEntries returns has a finite score and weight and *)
(* finite scoring details, also when a raw number is missing or is not     *)
(* numeric: no NaN is left in it.                                          *)
C25_NoNaNInEntries ==
    scoreOut.done =>
        \A i \in 1..Len(scoreOut.out) :
            /\ scoreOut.out[i].notFinite = {}
            /\ scoreOut.out[i].score \in Int
            /\ scoreOut.out[i].weight.den > 0

----------------------------------------------------------------------------
(* runWithConcurrency(items, limit, worker)                                *)

MaxItems == 3     \* items.length is at most this
MaxLimit == 3     \* limit is at most this

(* Variant: one pool worker per item, whatever the limit.                  *)
poolSizeUnlimited(n, limit) == Max(1, n)

(* Math.max(1, Math.min(limit, items.length))                              *)
poolSize(n, limit) == Max(1, Min(limit, n))

(* Variant: the items are taken from the end of the list.                  *)
NextIndexFromEnd(p) == IF p.cursor < p.n THEN p.n - 1 - p.cursor ELSE p.cursor

(* const index = cursor                                                    *)
NextIndex(p) == p.cursor

(* One turn of a pool worker's loop, up to its await: index = cursor;      *)
(* cursor += 1; break when index >= items.length, else worker(items[index],*)
(* index) is called.                                                       *)
LoopTurn(p, l, index) ==
    IF index >= p.n
    THEN [p EXCEPT !.cursor = @ + 1, !.lanes[l] = [pc |-> "done", index |-> index]]
    ELSE [p EXCEPT !.cursor = @ + 1, !.lanes[l] = [pc |-> "busy", index |-> index],
                   !.started = Append(@, index)]

(* The pool workers are created one after the other; each runs its first   *)
(* loop turn when it is created.                                           *)
RECURSIVE StartLanes(_, _)
StartLanes(p, l) ==
    IF l > Len(p.lanes) THEN p
    ELSE StartLanes(LoopTurn(p, l, NextIndex(p)), l + 1)

(* Variant: no try/catch around the worker call, so a rejection ends the   *)
(* pool worker and rejects Promise.all.                                    *)
WorkerSettledNoCatch(p, l, outcome) ==
    IF outcome = "rejected"
    THEN [p EXCEPT !.settled = Append(@, [index |-> p.lanes[l].index,
                                          outcome |-> outcome]),
                   !.lanes[l].pc = "done", !.pc = "rejected"]
    ELSE [p EXCEPT !.settled = Append(@, [index |-> p.lanes[l].index,
                                          outcome |-> outcome]),
                   !.lanes[l].pc = "next"]

(* await worker(...) settles; a rejection is caught and the loop goes on.  *)
WorkerSettled(p, l, outcome) ==
    [p EXCEPT !.settled = Append(@, [index |-> p.lanes[l].index,
                                     outcome |-> outcome]),
              !.lanes[l].pc = "next"]

(* runWithConcurrency is entered.                                          *)
PoolEnter ==
    /\ pool.pc = "called"
    /\ pool' = IF pool.n = 0 THEN [pool EXCEPT !.pc = "resolved"]
               ELSE StartLanes(
                        [pool EXCEPT !.pc = "running",
                                     !.lanes = [l \in 1..poolSize(pool.n, pool.limit)
                                                   |-> [pc |-> "new", index |-> 0]]],
                        1)
    /\ UNCHANGED <<opts, scoreIn, scoreOut, runs, timer, intervals, started,
                   committed, cycles, pager, request, webVars>>

(* A worker invocation settles.                                            *)
PoolSettle(l) ==
    /\ pool.pc \in {"running", "rejected"}
    /\ pool.lanes[l].pc = "busy"
    /\ \E outcome \in {"fulfilled", "rejected"} :
          pool' = WorkerSettled(pool, l, outcome)
    /\ UNCHANGED <<opts, scoreIn, scoreOut, runs, timer, intervals, started,
                   committed, cycles, pager, request, webVars>>

(* A pool worker goes on after its await: the next loop turn.              *)
PoolTake(l) ==
    /\ pool.pc \in {"running", "rejected"}
    /\ pool.lanes[l].pc = "next"
    /\ pool' = LoopTurn(pool, l, NextIndex(pool))
    /\ UNCHANGED <<opts, scoreIn, scoreOut, runs, timer, intervals, started,
                   committed, cycles, pager, request, webVars>>

(* Promise.all resolves: every pool worker has left its loop.              *)
PoolResolve ==
    /\ pool.pc = "running"
    /\ \A l \in DOMAIN pool.lanes : pool.lanes[l].pc = "done"
    /\ pool' = [pool EXCEPT !.pc = "resolved"]
    /\ UNCHANGED <<opts, scoreIn, scoreOut, runs, timer, intervals, started,
                   committed, cycles, pager, request, webVars>>

InitPool ==
    /\ opts = [selectCount |-> 2, periods |-> <<30>>]
    /\ scoreIn = <<>>
    /\ scoreOut = [done |-> FALSE, base |-> <<>>, out |-> <<>>]
    /\ NoCycles
    /\ pager = NoCall
    /\ request = NoCall
    /\ pool \in [pc : {"called"}, n : 0..MaxItems, limit : 0..MaxLimit,
                 cursor : {0}, lanes : {<<>>}, started : {<<>>}, settled : {<<>>}]

NextPool ==
    \/ PoolEnter
    \/ \E l \in DOMAIN pool.lanes : PoolSettle(l)
    \/ \E l \in DOMAIN pool.lanes : PoolTake(l)
    \/ PoolResolve

(* Every worker invocation settles and the event loop runs what is ready.  *)
SpecPool == InitPool /\ [][NextPool]_vars /\ WF_vars(NextPool)

InFlight == {l \in DOMAIN pool.lanes : pool.lanes[l].pc = "busy"}

(* C26: runWithConcurrency never has more than max(1, limit) worker        *)
(* invocations in flight, for every item count and completion order.       *)
C26_AtMostLimitInFlight ==
    pool.pc \in {"running", "resolved", "rejected"} =>
        Cardinality(InFlight) <= Max(1, pool.limit)

C26_Witness ==
    /\ pool.pc = "running"
    /\ pool.n = 3 /\ pool.limit = 2
    /\ Cardinality(InFlight) = 2
    /\ Len(pool.settled) = 1 /\ pool.settled[1].index = 1

Indices(list) == {list[i].index : i \in 1..Len(list)}

(* C27: runWithConcurrency invokes the worker exactly once for every item, *)
(* resolves only after every invocation has settled, never rejects, also   *)
(* when invocations reject, and resolves in the end when every invocation  *)
(* settles.                                                                *)
C27_EveryItemOnceThenResolved ==
    /\ [](/\ pool.pc # "rejected"
          /\ pool.pc # "idle" =>
                /\ \A i, j \in DOMAIN pool.started :
                      i # j => pool.started[i] # pool.started[j]
                /\ \A i \in DOMAIN pool.started : pool.started[i] \in 0..(pool.n - 1)
          /\ pool.pc = "resolved" =>
                /\ Range(pool.started) = 0..(pool.n - 1)
                /\ Indices(pool.settled) = 0..(pool.n - 1)
                /\ Len(pool.settled) = pool.n)
    /\ (pool.pc = "called") ~> (pool.pc = "resolved")

C27_Witness ==
    /\ pool.pc = "resolved"
    /\ pool.n = 3 /\ pool.limit = 2
    /\ \E i \in DOMAIN pool.settled : pool.settled[i].outcome = "rejected"
    /\ \E i \in DOMAIN pool.settled : pool.settled[i].outcome = "fulfilled"

(* C28: runWithConcurrency starts the worker invocations in input order,   *)
(* whatever the order in which they complete.                              *)
C28_StartedInInputOrder ==
    pool.pc # "idle" =>
        \A i, j \in DOMAIN pool.started :
            i < j => pool.started[i] < pool.started[j]

C28_Witness ==
    /\ pool.n = 3 /\ pool.limit = 2
    /\ pool.started = <<0, 1, 2>>
    /\ Len(pool.settled) = 3
    /\ pool.settled[1].index = 1 /\ pool.settled[2].index = 2
    /\ pool.settled[3].index = 0

----------------------------------------------------------------------------
(* requestJson(input, init, retries, timeoutMs) and its callers            *)

MaxRetries == 2        \* largest retries argument of a direct call
statRetries == 2       \* fetchAddressStat: requestJson(url, init, 2, 6000)
portfolioRetries == 1  \* fetchPortfolioSeries: requestJson(..., 1, 8000)

(* How one attempt ends: the body is returned, or res.ok is false, or the  *)
(* timeout signal aborts the fetch, or res.json() throws.                  *)
AttemptOutcomes == {"ok", "http", "timeout", "decode"}

(* Variant: the loop is left one attempt early.                            *)
AttemptFailedEarly(q, outcome) ==
    [q EXCEPT !.attempts = Append(@, outcome), !.attempt = @ + 1,
              !.pc = IF q.attempt + 1 >= q.retries THEN "thrown" ELSE "sleep"]

(* catch: lastErr = err; attempt += 1; if (attempt > retries) break (and   *)
(* throw lastErr); else sleep.                                             *)
AttemptFailed(q, outcome) ==
    [q EXCEPT !.attempts = Append(@, outcome), !.attempt = @ + 1,
              !.pc = IF q.attempt + 1 > q.retries THEN "thrown" ELSE "sleep"]

(* while (attempt <= retries): fetch(input, ...) is called.                *)
RequestSend ==
    /\ request.pc = "loop"
    /\ request.attempt <= request.retries
    /\ request' = [request EXCEPT !.pc = "fetch", !.sent = @ + 1]
    /\ UNCHANGED <<opts, scoreIn, scoreOut, runs, timer, intervals, started,
                   committed, cycles, pager, pool, webVars>>

(* The attempt ends: return on success, the catch block otherwise.         *)
RequestSettle ==
    /\ request.pc = "fetch"
    /\ \E outcome \in AttemptOutcomes :
          request' = IF outcome = "ok"
                     THEN [request EXCEPT !.attempts = Append(@, outcome),
                                          !.pc = "returned"]
                     ELSE AttemptFailed(request, outcome)
    /\ UNCHANGED <<opts, scoreIn, scoreOut, runs, timer, intervals, started,
                   committed, cycles, pager, pool, webVars>>

(* await sleep(200 * attempt) is over.                                     *)
RequestWake ==
    /\ request.pc = "sleep"
    /\ request' = [request EXCEPT !.pc = "loop"]
    /\ UNCHANGED <<opts, scoreIn, scoreOut, runs, timer, intervals, started,
                   committed, cycles, pager, pool, webVars>>

(* One call of requestJson by fetchAddressStat, by fetchPortfolioSeries or *)
(* with any number of retries, beside one fetchPeriod.                     *)
InitRequest ==
    /\ opts = [selectCount |-> 2, periods |-> <<30>>]
    /\ scoreIn = <<>>
    /\ scoreOut = [done |-> FALSE, base |-> <<>>, out |-> <<>>]
    /\ NoCycles
    /\ pager \in [pc : {"loop"}, topN : {MaxTopN}, pageSize : PageSizes,
                  page : {1}, results : {<<>>}, requests : {<<>>},
                  responses : {<<>>}, returned : {<<>>}]
    /\ request \in
          {[pc |-> "loop", caller |-> "fetchAddressStat", retries |-> statRetries,
            attempt |-> 0, sent |-> 0, attempts |-> <<>>],
           [pc |-> "loop", caller |-> "fetchPortfolioSeries",
            retries |-> portfolioRetries, attempt |-> 0, sent |-> 0,
            attempts |-> <<>>]}
          \cup {[pc |-> "loop", caller |-> "direct", retries |-> r,
                 attempt |-> 0, sent |-> 0, attempts |-> <<>>] : r \in 0..MaxRetries}
    /\ pool = NoCall

NextRequest ==
    \/ RequestSend
    \/ RequestSettle
    \/ RequestWake
    \/ PageRequest
    \/ PageResponse
    \/ FetchReturn

SpecRequest == InitRequest /\ [][NextRequest]_vars

Failed(attempts, k) == \A i \in 1..k : attempts[i] # "ok"

(* C29: requestJson with retries = r makes at most r + 1 attempts, returns *)
(* on the first successful attempt and makes no further one, and throws    *)
(* only after r + 1 failed attempts; so an address-stats fetch makes at    *)
(* most 3 attempts, a portfolio fetch at most 2, and fetchPeriod requests  *)
(* every page exactly once.                                                *)
C29_AttemptsBounded ==
    /\ request.sent <= request.retries + 1
    /\ Len(request.attempts) <= request.sent
    /\ request.sent <= Len(request.attempts) + 1
    /\ Failed(request.attempts, Len(request.attempts) - 1)
    /\ request.pc = "returned" <=>
          (request.attempts # <<>> /\ request.attempts[Len(request.attempts)] = "ok")
    /\ request.pc = "returned" => request.sent = Len(request.attempts)
    /\ request.pc = "thrown" =>
          /\ request.sent = request.retries + 1
          /\ Len(request.attempts) = request.retries + 1
          /\ Failed(request.attempts, request.retries + 1)
    /\ request.caller = "fetchAddressStat" => request.sent <= 3
    /\ request.caller = "fetchPortfolioSeries" => request.sent <= 2
    /\ pager.requests = [i \in 1..Len(pager.requests) |-> i]
    /\ Len(pager.responses) <= Len(pager.requests)

C29_Witness ==
    /\ request.pc = "thrown"
    /\ request.caller = "fetchAddressStat"
    /\ request.attempts = <<"http", "timeout", "decode">>
    /\ pager.requests = <<1, 2>>
    /\ Len(pager.responses) = 2

(* The entries a page answer adds to results.                              *)
PageLen(res) == IF res.data = "array" THEN res.len ELSE 0

RECURSIVE TotalLen(_)
TotalLen(responses) ==
    IF responses = <<>> THEN 0
    ELSE PageLen(Head(responses)) + TotalLen(Tail(responses))

(* C30: fetchPeriod requests the pages 1, 2, ... one after the other, no   *)
(* page after the first one with fewer than pageSize entries, never more   *)
(* than ceil(topN / pageSize) pages, and returns at most topN entries in   *)
(* upstream order; scoring starts only after the last page request has     *)
(* completed.                                                              *)
C30_PagesInOrderThenScore ==
    pager.pc # "idle" =>
        /\ pager.requests = [i \in 1..Len(pager.requests) |-> i]
        /\ Len(pager.requests) <= Len(pager.responses) + 1
        /\ Len(pager.requests) = Len(pager.responses) + 1 <=> pager.pc = "fetch"
        /\ \A i \in 1..(Len(pager.requests) - 1) :
              PageLen(pager.responses[i]) >= pager.pageSize
        /\ Len(pager.requests) <= pagesNeeded(pager.topN, pager.pageSize)
        /\ Len(pager.returned) <= pager.topN
        /\ pager.pc = "returned" =>
              /\ Len(pager.returned) = Min(pager.topN, TotalLen(pager.responses))
              /\ \A k \in 1..(Len(pager.returned) - 1) :
                    \/ /\ pager.returned[k + 1].page = pager.returned[k].page
                       /\ pager.returned[k + 1].index = pager.returned[k].index + 1
                    \/ /\ pager.returned[k + 1].page = pager.returned[k].page + 1
                       /\ pager.returned[k + 1].index = 1
                       /\ pager.returned[k].index
                             = PageLen(pager.responses[pager.returned[k].page])
              /\ pager.returned # <<>> =>
                    pager.returned[1] = [page |-> 1, index |-> 1]
        /\ scoreOut.done =>
              /\ pager.pc = "returned"
              /\ Len(pager.responses) = Len(pager.requests)
              /\ Len(scoreIn) = Len(pager.returned)

C30_Witness ==
    /\ scoreOut.done
    /\ pager.topN = 3 /\ pager.pageSize = 2
    /\ pager.requests = <<1, 2>>
    /\ Len(pager.results) = 4
    /\ Len(pager.returned) = 3
    /\ Len(scoreOut.out) = 3

----------------------------------------------------------------------------
(* persistPeriod: the connection it checks out                             *)

NextConnection ==
    \/ Start(1, TRUE)
    \/ \E r \in DOMAIN runs : Fetch(r, SnapshotsUpTo({pGood, pApiMdd, pModest}, 2))
    \/ \E r \in DOMAIN runs : Stats(r, NoOutcome, TRUE)
    \/ \E r \in DOMAIN runs : Series(r, NoOutcome, TRUE)
    \/ \E r \in DOMAIN runs : Connect(r)
    \/ \E r \in DOMAIN runs : ConnectFail(r)
    \/ \E r \in DOMAIN runs : Statement(r)
    \/ \E r \in DOMAIN runs : StatementFail(r)
    \/ \E r \in DOMAIN runs : Rollback(r)
    \/ \E r \in DOMAIN runs : RollbackFail(r)
    \/ \E r \in DOMAIN runs : Commit(r)
    \/ \E r \in DOMAIN runs : Publish(r)

SpecConnection == Init /\ [][NextConnection]_vars

(* The run that executes cycle c is inside persistPeriod's try block.      *)
InTransaction(c) ==
    \E r \in DOMAIN runs : runs[r].id = c /\ runs[r].pc \in TxPcs \cup {"rollback"}

(* C31: every connection persistPeriod checks out is released exactly once *)
(* on every way out: commit, the early commit of an empty list, a failed   *)
(* statement followed by ROLLBACK, and a failing ROLLBACK.                 *)
C31_ConnectionReleasedOnce ==
    \A c \in DOMAIN cycles :
        /\ cycles[c].checkouts <= 1
        /\ cycles[c].releases <= cycles[c].checkouts
        /\ InTransaction(c) <=> (cycles[c].checkouts = 1 /\ cycles[c].releases = 0)
        /\ cycles[c].exit # Nil => cycles[c].releases = 1
        /\ (cycles[c].state = "committed") <=> (cycles[c].exit \in {"commit", "emptyCommit"})

C31_Witness ==
    \E c \in DOMAIN cycles :
        /\ cycles[c].exit = "rollbackFailed"
        /\ cycles[c].checkouts = 1 /\ cycles[c].releases = 1
        /\ CycleOver(c)

----------------------------------------------------------------------------
(* fetchAddressStatsBatch and fetchPortfolioSeriesBatch: the workers of    *)
(* runWithConcurrency fill a Map in the order in which they complete       *)

(* A JavaScript Map as the sequence of its entries in insertion order.     *)
MapHas(m, key) == \E i \in 1..Len(m) : m[i].key = key

MapGet(m, key) == m[CHOOSE i \in 1..Len(m) : m[i].key = key].value

(* map.set(key, value): an existing key keeps its place.                   *)
MapSet(m, key, value) ==
    IF MapHas(m, key)
    THEN [i \in 1..Len(m) |-> IF m[i].key = key THEN [key |-> key, value |-> value]
                              ELSE m[i]]
    ELSE Append(m, [key |-> key, value |-> value])

(* What map.get answers for every key: the map without its entry order.    *)
MapContent(m) == [key \in {m[i].key : i \in 1..Len(m)} |-> MapGet(m, key)]

(* Variant: the worker names its item by the shared cursor when it         *)
(* completes, not by the argument it was called with.                      *)
SettledItemShared(p, l) == p.items[Min(p.cursor, p.n)]

(* The item a worker was called with: items[index].                        *)
SettledItem(p, l) == p.items[p.lanes[l].index + 1]

(* The body of a worker after its fetch resolved with outcome: the stats   *)
(* worker sets the stats unless they are null; the series worker sets the  *)
(* windows of the period unless there is none.                             *)
WorkerBody(p, address, outcome, period) ==
    IF outcome = <<>> THEN p
    ELSE IF p.batch = "stats"
    THEN [p EXCEPT !.map = MapSet(@, address, outcome[1])]
    ELSE IF Len(RelevantWindows(outcome[1], period)) = 0 THEN p
    ELSE [p EXCEPT !.map = MapSet(@, address, RelevantWindows(outcome[1], period))]

(* A worker of the batch completes: its fetch resolved with the answer of  *)
(* the upstream for its address.                                           *)
BatchSettle(l) ==
    /\ pool.pc = "running"
    /\ pool.lanes[l].pc = "busy"
    /\ pool' = WorkerSettled(
                   WorkerBody(pool, SettledItem(pool, l),
                              pool.responses[pool.batch][pool.lanes[l].index + 1],
                              opts.periods[1]),
                   l, "fulfilled")
    /\ UNCHANGED <<opts, scoreIn, scoreOut, runs, timer, intervals, started,
                   committed, cycles, pager, request, webVars>>

(* applyAddressStats goes on after its batch; fetchPortfolioSeriesBatch    *)
(* is called on the same entries.                                          *)
BatchSeries ==
    /\ pool.pc = "resolved"
    /\ pool.batch = "stats"
    /\ pool' = [pool EXCEPT !.pc = "called", !.batch = "series", !.cursor = 0,
                            !.lanes = <<>>, !.started = <<>>, !.settled = <<>>,
                            !.map = <<>>, !.statsMap = pool.map]
    /\ UNCHANGED <<opts, scoreIn, scoreOut, runs, timer, intervals, started,
                   committed, cycles, pager, request, webVars>>

(* Both batches are over: the stats are applied to the entries in list     *)
(* order and the list is re-filtered.                                      *)
BatchApply ==
    /\ pool.pc = "resolved"
    /\ pool.batch = "series"
    /\ pool' = [pool EXCEPT !.pc = "applied"]
    /\ scoreOut' = [done |-> TRUE,
                    base |-> scoreEntries(scoreIn, opts.selectCount),
                    out |-> Refilter(
                                applyAddressStats(
                                    scoreEntries(scoreIn, opts.selectCount),
                                    pool.n, MapContent(pool.statsMap)),
                                opts.selectCount)]
    /\ UNCHANGED <<opts, scoreIn, runs, timer, intervals, started, committed,
                   cycles, pager, request, webVars>>

BatchSnapshot ==
    <<[address |-> Addr[1]] @@ pGood, [address |-> Addr[2]] @@ pModest,
      [address |-> Addr[3]] @@ pPerfectFew>>

(* The addresses of toEnrich, in ranked order.                             *)
BatchItems(ranked, o) ==
    [i \in 1..enrichTarget(ranked, o) |-> ranked[i].address]

InitBatch ==
    /\ opts = [selectCount |-> 2, periods |-> <<30>>]
    /\ scoreIn = BatchSnapshot
    /\ scoreOut = [done |-> FALSE, base |-> <<>>, out |-> <<>>]
    /\ NoCycles
    /\ pager = NoCall
    /\ request = NoCall
    /\ \E stats \in [1..3 -> StatOutcomes], series \in [1..3 -> SeriesOutcomes] :
          pool = [pc |-> "called", n |-> 3, limit |-> 2, cursor |-> 0,
                  lanes |-> <<>>, started |-> <<>>, settled |-> <<>>,
                  batch |-> "stats", map |-> <<>>, statsMap |-> <<>>,
                  items |-> BatchItems(scoreEntries(scoreIn, opts.selectCount), opts),
                  responses |-> [stats |-> stats, series |-> series]]

NextBatch ==
    \/ PoolEnter
    \/ \E l \in DOMAIN pool.lanes : BatchSettle(l)
    \/ \E l \in DOMAIN pool.lanes : PoolTake(l)
    \/ PoolResolve
    \/ BatchSeries
    \/ BatchApply

SpecBatch == InitBatch /\ [][NextBatch]_vars

(* The upstream's answers as a function of the address.                    *)
AnswerOf(batch) ==
    [a \in Range(pool.items) |->
        pool.responses[batch][CHOOSE i \in 1..pool.n : pool.items[i] = a]]

----------------------------------------------------------------------------
(* applyAddressStats as a step of refreshPeriod                            *)

(* What applyAddressStats may change of an entry: winRate, the stat fields *)
(* and meta.stats.                                                         *)
OnlyStatsChanged(before, after) ==
    /\ [after EXCEPT !.winRate = before.winRate,
                     !.statMaxDrawdown = before.statMaxDrawdown,
                     !.meta = before.meta] = before
    /\ [after.meta EXCEPT !.stats = before.meta.stats] = before.meta

EnrichedBy(r) ==
    /\ r \in DOMAIN runs /\ r \in DOMAIN runs'
    /\ runs[r].pc = "stats" /\ runs'[r].pc = "series"

(* C33: applyAddressStats changes only winRate, the stat fields and        *)
(* meta.stats of an entry, never its address, score, rank or weight, and   *)
(* leaves an entry without fetched stats as it was.                        *)
C33_EnrichmentFrame ==
    [][\A r \in 1..MaxRuns : EnrichedBy(r) =>
          /\ Len(runs'[r].ranked) = Len(runs[r].ranked)
          /\ \A i \in 1..Len(runs[r].ranked) :
                /\ OnlyStatsChanged(runs[r].ranked[i], runs'[r].ranked[i])
                /\ runs'[r].ranked[i].address = runs[r].ranked[i].address
                /\ runs'[r].ranked[i].score = runs[r].ranked[i].score
                /\ runs'[r].ranked[i].rank = runs[r].ranked[i].rank
                /\ runs'[r].ranked[i].weight = runs[r].ranked[i].weight
                /\ (\/ i > enrichTarget(runs[r].ranked, opts)
                    \/ runs'[r].statsOutcome[runs[r].ranked[i].address] = <<>>)
                      => runs'[r].ranked[i] = runs[r].ranked[i]]_vars

C33_Witness ==
    \E r \in DOMAIN runs :
        /\ runs[r].pc = "series"
        /\ Len(runs[r].ranked) = 3
        /\ runs[r].statsOutcome[runs[r].ranked[1].address] = <<StatsLow>>
        /\ runs[r].ranked[1].meta.stats = Some(StatsLow)
        /\ runs[r].ranked[1].winRate = 5500
        /\ runs[r].ranked[1].weight # Zero
        /\ runs[r].statsOutcome[runs[r].ranked[2].address] = <<>>

(* C34: after any sequence of start() and stop() calls at most one         *)
(* interval timer is active, and none is active after stop().              *)
C34_AtMostOneInterval ==
    /\ Cardinality(intervals) <= 1
    /\ timer = 0 => intervals = {}
    /\ timer # 0 => intervals = {timer}

(* start() was called twice in a row.                                      *)
C34_Witness ==
    /\ started = 2
    /\ timer = 2
    /\ intervals = {2}

----------------------------------------------------------------------------
(* computeAdjustedWinRate called on its own                                *)

MaxWins == 45
MaxLosses == 3

InitWinRate ==
    /\ opts = [selectCount |-> 1, periods |-> <<30>>]
    /\ scoreIn \in [numWins : 0..MaxWins, numLosses : 0..MaxLosses]
    /\ scoreOut = [done |-> FALSE, out |-> 0]
    /\ IdleState

WinRateCall ==
    /\ ~scoreOut.done
    /\ scoreOut' = [done |-> TRUE,
                    out |-> computeAdjustedWinRate(scoreIn.numWins, scoreIn.numLosses)]
    /\ UNCHANGED <<helperVars, opts, scoreIn, runs, timer, intervals, started,
                   committed, cycles>>

SpecWinRate == InitWinRate /\ [][WinRateCall]_vars

(* The factor of the claim, in tenths: 7 without a loss, 8 for a rate      *)
(* above 0.95 over more than 20 trades, 10 otherwise.                      *)
ClaimedTenths(w, l) ==
    IF l = 0 /\ w > 0 THEN 7
    ELSE IF 100 * (w + 1) > 95 * (w + l + 2) /\ w + l > 20 THEN 8
    ELSE 10

(* C35: computeAdjustedWinRate(w, l) is b = (w + 1) / (w + l + 2) times    *)
(* 0.7 when l = 0 and w > 0, else times 0.8 when b > 0.95 and w + l > 20,  *)
(* else b; computeAdjustedWinRate(0, 0) = 0.5.                             *)
C35_AdjustedWinRate ==
    scoreOut.done =>
        /\ scoreOut.out
              = (ClaimedTenths(scoreIn.numWins, scoreIn.numLosses)
                   * (((scoreIn.numWins + 1) * SCALE)
                         \div (scoreIn.numWins + scoreIn.numLosses + 2))) \div 10
        /\ (scoreIn.numWins = 0 /\ scoreIn.numLosses = 0) => scoreOut.out = SCALE \div 2

(* A rate above 0.95 with a loss and more than 20 trades.                  *)
C35_Witness ==
    /\ scoreOut.done
    /\ scoreIn.numWins = 40 /\ scoreIn.numLosses = 1
    /\ scoreOut.out = (8 * ((41 * SCALE) \div 43)) \div 10

----------------------------------------------------------------------------
(* computeSmoothPnlScore called on its own                                 *)

MaxPoints == 3

(* The pnl of a point: a finite number, or a value that is dropped.        *)
PointValues == {None, Some(-5), Some(0), Some(5), Some(10)}

PnlLists ==
    UNION {[1..n -> [ts : {0}, value : PointValues]] : n \in 0..MaxPoints}

InitSmooth ==
    /\ opts = [selectCount |-> 1, periods |-> <<30>>]
    /\ scoreIn \in PnlLists
    /\ scoreOut = [done |-> FALSE, out |-> <<>>]
    /\ IdleState

SmoothCall ==
    /\ ~scoreOut.done
    /\ scoreOut' = [done |-> TRUE, out |-> computeSmoothPnlScore(scoreIn)]
    /\ UNCHANGED <<helperVars, opts, scoreIn, runs, timer, intervals, started,
                   committed, cycles>>

SpecSmooth == InitSmooth /\ [][SmoothCall]_vars

(* C36: computeSmoothPnlScore returns a maxDrawdown within [0, 1] for      *)
(* every pnl series, also for one that falls below its starting value      *)
(* after a positive peak.                                                  *)
C36_MaxDrawdownInUnit ==
    scoreOut.done =>
        /\ scoreOut.out.maxDrawdown >= 0
        /\ scoreOut.out.maxDrawdown <= SCALE

----------------------------------------------------------------------------
(* mergeTrades: packages/ts-lib/src/pagination.ts, and the variant with    *)
(* the dedupe key id|time                                                  *)

MaxTrades == 2

(* A TradeRow by the fields that mergeTrades reads.  time is None for ""   *)
(* and Some(n) for the ISO string of instant n; id and tx may be absent.   *)
TradeRows ==
    {[id |-> Some(1), time |-> Some(1), tx |-> None],
     [id |-> Some(2), time |-> Some(1), tx |-> None],
     [id |-> Some(1), time |-> Some(1), tx |-> Some(7)],
     [id |-> None,    time |-> Some(2), tx |-> None],
     [id |-> Some(2), time |-> Some(2), tx |-> Some(7)],
     [id |-> Some(1), time |-> None,    tx |-> None]}

TradeLists == UNION {[1..n -> TradeRows] : n \in 0..MaxTrades}

(* Date.parse(t.time), 0 when it is not finite.                            *)
toTs(t) == IF t.time = None THEN 0 ELSE Val(t.time)

(* The address is the same non-empty string in every row.                  *)
tradeKey(t) ==
    IF t.tx # None THEN <<"tx", Val(t.tx)>>
    ELSE IF t.id # None /\ t.time # None THEN <<"idtime", Val(t.id), Val(t.time)>>
    ELSE IF t.time # None THEN <<"addrtime", Val(t.time)>>
    ELSE IF t.id # None THEN <<"id", Val(t.id)>>
    ELSE <<"fallback">>

(* `${t.id}|${t.time}`, for rows with an id and an ISO time.               *)
idTimeKey(t) == <<"idtime", Val(t.id), Val(t.time)>>

(* The comparator: negative when a goes before b.                          *)
tradeSort(a, b) ==
    IF toTs(a) # toTs(b) THEN toTs(b) - toTs(a)
    ELSE (IF b.id = None THEN 0 ELSE Val(b.id)) - (IF a.id = None THEN 0 ELSE Val(a.id))

(* Array.prototype.sort is stable: t goes behind every row it does not     *)
(* have to go before.                                                      *)
InsertTrade(sorted, t) ==
    SubSeq(sorted, 1, Cardinality({i \in 1..Len(sorted) : tradeSort(sorted[i], t) <= 0}))
        \o <<t>>
        \o SubSeq(sorted,
                  Cardinality({i \in 1..Len(sorted) : tradeSort(sorted[i], t) <= 0}) + 1,
                  Len(sorted))

RECURSIVE SortTrades(_)
SortTrades(rows) ==
    IF rows = <<>> THEN <<>>
    ELSE InsertTrade(SortTrades(SubSeq(rows, 1, Len(rows) - 1)), rows[Len(rows)])

(* The loop over incoming: a row is pushed unless its key was seen.        *)
RECURSIVE PushUnseen(_, _, _)
PushUnseen(result, seen, incoming) ==
    IF incoming = <<>> THEN result
    ELSE IF tradeKey(Head(incoming)) \in seen
    THEN PushUnseen(result, seen, Tail(incoming))
    ELSE PushUnseen(Append(result, Head(incoming)),
                    seen \cup {tradeKey(Head(incoming))}, Tail(incoming))

mergeTrades(base, incoming) ==
    SortTrades(PushUnseen(base, {tradeKey(base[i]) : i \in 1..Len(base)}, incoming))

RECURSIVE Additions(_, _, _)
Additions(additions, seen, incoming) ==
    IF incoming = <<>> THEN additions
    ELSE IF idTimeKey(Head(incoming)) \in seen
    THEN Additions(additions, seen, Tail(incoming))
    ELSE Additions(Append(additions, Head(incoming)),
                   seen \cup {idTimeKey(Head(incoming))}, Tail(incoming))

(* The variant with the key id|time: without additions it returns          *)
(* existing.slice(), otherwise it sorts existing.concat(additions).        *)
MergedOrSlice(existing, additions) ==
    IF Len(additions) = 0 THEN existing ELSE SortTrades(existing \o additions)

mergeTradesIdTime(existing, incoming) ==
    MergedOrSlice(existing,
                  Additions(<<>>, {idTimeKey(existing[i]) : i \in 1..Len(existing)},
                            incoming))

(* Rows of the type the id|time variant declares: id and ISO time present. *)
IdTimeRows(rows) == \A i \in 1..Len(rows) : rows[i].id # None /\ rows[i].time # None

InitMerge ==
    /\ opts = [selectCount |-> 1, periods |-> <<30>>]
    /\ scoreIn \in [base : TradeLists, incoming : TradeLists]
    /\ scoreOut = [done |-> FALSE, impl |-> "none", out |-> <<>>]
    /\ IdleState

MergeCall ==
    /\ ~scoreOut.done
    /\ scoreOut' = [done |-> TRUE, impl |-> "ts-lib",
                    out |-> mergeTrades(scoreIn.base, scoreIn.incoming)]
    /\ UNCHANGED <<helperVars, opts, scoreIn, runs, timer, intervals, started,
                   committed, cycles>>

MergeIdTimeCall ==
    /\ ~scoreOut.done
    /\ IdTimeRows(scoreIn.base) /\ IdTimeRows(scoreIn.incoming)
    /\ scoreOut' = [done |-> TRUE, impl |-> "idtime",
                    out |-> mergeTradesIdTime(scoreIn.base, scoreIn.incoming)]
    /\ UNCHANGED <<helperVars, opts, scoreIn, runs, timer, intervals, started,
                   committed, cycles>>

NextMerge == MergeCall \/ MergeIdTimeCall

SpecMerge == InitMerge /\ [][NextMerge]_vars

KeyOf(impl, t) == IF impl = "ts-lib" THEN tradeKey(t) ELSE idTimeKey(t)

(* The incoming rows whose key occurs neither in base nor earlier in       *)
(* incoming.                                                               *)
NewRows(impl, base, incoming) ==
    {i \in 1..Len(incoming) :
        /\ \A j \in 1..Len(base) : KeyOf(impl, base[j]) # KeyOf(impl, incoming[i])
        /\ \A j \in 1..(i - 1) : KeyOf(impl, incoming[j]) # KeyOf(impl, incoming[i])}

NoKeyTwice(impl, rows) ==
    \A i, j \in 1..Len(rows) : i # j => KeyOf(impl, rows[i]) # KeyOf(impl, rows[j])

NewestFirst(rows) ==
    \A i, j \in 1..Len(rows) : i < j => tradeSort(rows[i], rows[j]) <= 0

(* The number of times row t occurs in rows.                               *)
Occurrences(rows, t) == Cardinality({i \in 1..Len(rows) : rows[i] = t})

MergeContract(impl, base, incoming, result) ==
    /\ \A t \in TradeRows :
          Occurrences(result, t)
             = Occurrences(base, t)
                 + Cardinality({i \in NewRows(impl, base, incoming) : incoming[i] = t})
    /\ NoKeyTwice(impl, base) => NoKeyTwice(impl, result)
    /\ NewestFirst(result)
    /\ (incoming = <<>> /\ NewestFirst(base)) => result = base

(* C37: mergeTrades returns the rows of base plus the incoming rows whose  *)
(* key is new (existing rows win), without a key twice when base has none  *)
(* twice, newest first by time and then by id; an empty incoming list and  *)
(* an ordered base give base.                                              *)
C37_MergeTrades ==
    scoreOut.done => MergeContract(scoreOut.impl, scoreIn.base, scoreIn.incoming,
                                   scoreOut.out)

(* What packages/ts-lib/src/pagination.ts meets on its own.                *)
MergeTradesTsLib ==
    (scoreOut.done /\ scoreOut.impl = "ts-lib") =>
        MergeContract("ts-lib", scoreIn.base, scoreIn.incoming, scoreOut.out)

(* C38: after a committed cycle every address with pnl_points rows of the  *)
(* period has a ranked_entries row of the period: no points are stored     *)
(* for an address that the re-filter dropped.                              *)
C38_PointsHaveEntry ==
    \A p \in DOMAIN committed :
        \A point \in BagToSet(committed[p].points) :
            \E entry \in committed[p].entries : entry.address = point.address

----------------------------------------------------------------------------
(* fetchAndStoreCustomAccountStats beside the refresh cycles               *)

(* The RankedEntry built for a custom account, as a row: rank 9999, score  *)
(* and weight 0, the stats where the fetch returned some.                  *)
CustomEntry(address, outcome) ==
    [by |-> 0, address |-> address, rank |-> 9999, score |-> 0, weight |-> Zero,
     winRate |-> IF outcome = <<>> \/ outcome[1].winRate = None THEN 0
                 ELSE Val(outcome[1].winRate),
     executedOrders |-> 0, realizedPnl |-> 0, pnlConsistency |-> 0,
     statMaxDrawdown |-> IF outcome = <<>> THEN None ELSE outcome[1].maxDrawdown,
     meta |-> [custom |-> TRUE]]

(* Variant: the conflicting row is overwritten with every EXCLUDED column. *)
CustomReplace(row, excluded) == excluded

(* ON CONFLICT (period_days, lower(address)) DO UPDATE SET ...: the        *)
(* columns of the SET list; rank, score and weight are not in it.          *)
CustomUpdate(row, excluded) ==
    [row EXCEPT !.winRate = excluded.winRate,
                !.executedOrders = excluded.executedOrders,
                !.realizedPnl = excluded.realizedPnl,
                !.statMaxDrawdown = excluded.statMaxDrawdown,
                !.meta = excluded.meta,
                !.by = excluded.by]

(* INSERT ... ON CONFLICT DO UPDATE on the committed rows.                 *)
CustomUpsert(entries, excluded) ==
    IF \E row \in entries : row.address = excluded.address
    THEN {IF row.address = excluded.address THEN CustomUpdate(row, excluded) ELSE row
          : row \in entries}
    ELSE entries \cup {excluded}

(* The statement waits while an open transaction has deleted or inserted   *)
(* a row of the same (period, lower(address)): the unique index makes it   *)
(* wait for that transaction to end.                                       *)
CustomBlocked(address, period) ==
    \E r \in DOMAIN runs :
        /\ runs[r].pc \in TxPcs \cup {"rollback"}
        /\ PeriodOf(runs[r]) = period
        /\ \E row \in runs[r].tx.seenE \cup runs[r].tx.insE : row.address = address

(* The call: normalise the address and start the stats fetch.              *)
CustomCall(address) ==
    /\ custom.pc \in {"idle", "stored", "failed"}
    /\ custom' = [pc |-> "fetch", address |-> address]
    /\ UNCHANGED <<opts, scoreIn, scoreOut, runs, timer, intervals, started,
                   committed, cycles, pager, request, pool, server>>

(* The fetch is over (with stats or null) and the upsert is executed.      *)
CustomStore(outcomes) ==
    /\ custom.pc = "fetch"
    /\ ~CustomBlocked(custom.address, opts.periods[1])
    /\ \E outcome \in outcomes :
          committed' = [committed EXCEPT
                           ![opts.periods[1]].entries =
                               CustomUpsert(@, CustomEntry(custom.address, outcome))]
    /\ custom' = [custom EXCEPT !.pc = "stored"]
    /\ UNCHANGED <<opts, scoreIn, scoreOut, runs, timer, intervals, started,
                   cycles, pager, request, pool, server>>

(* The query fails: the error is logged and null is returned.              *)
CustomStoreFail ==
    /\ custom.pc = "fetch"
    /\ custom' = [custom EXCEPT !.pc = "failed"]
    /\ UNCHANGED <<opts, scoreIn, scoreOut, runs, timer, intervals, started,
                   committed, cycles, pager, request, pool, server>>

CustomSnapshots ==
    {<<[address |-> Addr[1]] @@ pGood>>,
     <<[address |-> Addr[2]] @@ pModest>>,
     <<[address |-> Addr[1]] @@ pGood, [address |-> Addr[2]] @@ pModest>>}

NextCustom ==
    \/ Start(1, TRUE)
    \/ Tick(2, TRUE)
    \/ \E r \in DOMAIN runs : Fetch(r, CustomSnapshots)
    \/ \E r \in DOMAIN runs : Stats(r, NoOutcome, TRUE)
    \/ \E r \in DOMAIN runs : Series(r, NoOutcome, TRUE)
    \/ \E r \in DOMAIN runs : Connect(r)
    \/ \E r \in DOMAIN runs : Statement(r)
    \/ \E r \in DOMAIN runs : StatementFail(r)
    \/ \E r \in DOMAIN runs : Rollback(r)
    \/ \E r \in DOMAIN runs : Commit(r)
    \/ \E r \in DOMAIN runs : Publish(r)
    \/ \E a \in {Addr[1], Addr[3]} : CustomCall(a)
    \/ CustomStore({<<>>, <<StatsLow>>})
    \/ CustomStoreFail

SpecCustom == Init /\ [][NextCustom]_vars

RowsOf(entries, address) == {row \in entries : row.address = address}

(* C39: fetchAndStoreCustomAccountStats for an address that has a          *)
(* ranked_entries row of the period leaves the rank, score and weight of   *)
(* that row as they are and never makes a second row for the address,      *)
(* wherever it falls between the steps of the refresh cycles.              *)
C39_CustomStatsFrame ==
    [][(custom.pc = "fetch" /\ custom'.pc = "stored") =>
          /\ Cardinality(RowsOf(committed'[opts.periods[1]].entries, custom.address)) = 1
          /\ \A row \in RowsOf(committed[opts.periods[1]].entries, custom.address) :
                \A after \in RowsOf(committed'[opts.periods[1]].entries, custom.address) :
                    /\ after.rank = row.rank
                    /\ after.score = row.score
                    /\ after.weight = row.weight]_vars

(* The upsert has updated a row that a cycle wrote while the next cycle    *)
(* was inside its transaction.                                             *)
C39_Witness ==
    /\ custom.pc = "stored"
    /\ \E row \in committed[30].entries :
          /\ row.address = custom.address
          /\ row.by = 0
          /\ row.rank = 1
          /\ row.meta = [custom |-> TRUE]
    /\ \E r \in DOMAIN runs : runs[r].pc \in TxPcs /\ cycles[runs[r].id].raw # <<>>
    /\ Len(cycles) = 2

----------------------------------------------------------------------------
(* src/server.ts and Poller.runOnce: the tracked addresses and the         *)
(* recommendations                                                         *)

MaxPolls == 2

ServerAddresses == {Addr[1], Addr[2]}

RemoveAt(seq, k) == SubSeq(seq, 1, k - 1) \o SubSeq(seq, k + 1, Len(seq))

(* prev.find((r) => r.address === addr): the first match, or none.         *)
FindRec(recs, addr) ==
    IF \E i \in 1..Len(recs) : recs[i].address = addr
    THEN <<recs[CHOOSE i \in 1..Len(recs) :
                   recs[i].address = addr /\ \A j \in 1..(i - 1) : recs[j].address # addr]>>
    ELSE <<>>

(* runOnce up to its first await: the poll holds the array that            *)
(* getAddresses() returned; shared is TRUE while state.addresses is still  *)
(* that array.                                                             *)
NewPoll(addresses) ==
    [pc |-> "price", addresses |-> addresses, shared |-> TRUE, i |-> 1,
     priceUsd |-> None, prev |-> <<>>, next |-> <<>>]

(* state.addresses.push(addr) is seen by the polls that hold the array.    *)
Pushed(poll, addr) ==
    IF poll.shared THEN [poll EXCEPT !.addresses = Append(@, addr)] ELSE poll

(* state.addresses = state.addresses.filter(...) is a new array: the polls *)
(* in flight keep the old one.                                             *)
Filtered(poll, addr) == [poll EXCEPT !.shared = FALSE]

(* POST /api/addresses with an address that is not tracked: push, save,    *)
(* poller.trigger().                                                       *)
PostAddress(addr) ==
    /\ addr \notin Range(server.addresses)
    /\ Len(server.polls) < MaxPolls
    /\ server' = [server EXCEPT
                     !.addresses = Append(@, addr),
                     !.polls = Append([k \in 1..Len(@) |-> Pushed(@[k], addr)],
                                      NewPoll(Append(server.addresses, addr))),
                     !.removed = @ \ {addr}]
    /\ UNCHANGED <<opts, scoreIn, scoreOut, runs, timer, intervals, started,
                   committed, cycles, pager, request, pool, custom>>

(* DELETE /api/addresses/:address for a tracked address.                   *)
DeleteAddress(addr) ==
    /\ addr \in Range(server.addresses)
    /\ server' = [server EXCEPT
                     !.addresses = SelectSeq(@, LAMBDA a : a # addr),
                     !.recommendations = SelectSeq(@, LAMBDA r : r.address # addr),
                     !.polls = [k \in 1..Len(@) |-> Filtered(@[k], addr)],
                     !.removed = @ \cup {addr}]
    /\ UNCHANGED <<opts, scoreIn, scoreOut, runs, timer, intervals, started,
                   committed, cycles, pager, request, pool, custom>>

(* The interval, start() or POST /api/poll-now calls runOnce with at       *)
(* least one address tracked.                                              *)
PollStart ==
    /\ Len(server.addresses) > 0
    /\ Len(server.polls) < MaxPolls
    /\ server' = [server EXCEPT !.polls = Append(@, NewPoll(server.addresses))]
    /\ UNCHANGED <<opts, scoreIn, scoreOut, runs, timer, intervals, started,
                   committed, cycles, pager, request, pool, custom>>

(* fetchBtcPriceUsd settles: price is None when it failed.  prev is read   *)
(* and the loop awaits the exposure of the first address.                  *)
PriceSettled(k, price) ==
    /\ server.polls[k].pc = "price"
    /\ server' = [server EXCEPT
                     !.polls[k] = [@ EXCEPT !.pc = "exposure", !.priceUsd = price,
                                            !.prev = server.recommendations]]
    /\ UNCHANGED <<opts, scoreIn, scoreOut, runs, timer, intervals, started,
                   committed, cycles, pager, request, pool, custom>>

(* The recommendation pushed for addr: computed on success, the previous   *)
(* one (if any) on failure.                                                *)
PushRec(poll, addr, ok) ==
    IF ok
    THEN Append(poll.next,
                [address |-> addr,
                 priceUsd |-> IF poll.priceUsd # None THEN Val(poll.priceUsd)
                              ELSE IF FindRec(poll.prev, addr) # <<>>
                              THEN FindRec(poll.prev, addr)[1].priceUsd
                              ELSE 0])
    ELSE poll.next \o FindRec(poll.prev, addr)

(* fetchBtcPerpExposure(addr) settles; after the last address of the       *)
(* array setRecommendations(next) is called and runOnce returns.           *)
ExposureSettled(k, ok) ==
    /\ server.polls[k].pc = "exposure"
    /\ server' =
          IF server.polls[k].i < Len(server.polls[k].addresses)
          THEN [server EXCEPT
                   !.polls[k] =
                       [@ EXCEPT !.i = @ + 1,
                                 !.next = PushRec(server.polls[k],
                                                  server.polls[k].addresses[server.polls[k].i],
                                                  ok)]]
          ELSE [server EXCEPT
                   !.recommendations =
                       PushRec(server.polls[k],
                               server.polls[k].addresses[server.polls[k].i], ok),
                   !.polls = RemoveAt(@, k)]
    /\ UNCHANGED <<opts, scoreIn, scoreOut, runs, timer, intervals, started,
                   committed, cycles, pager, request, pool, custom>>

InitServer ==
    /\ opts = [selectCount |-> 1, periods |-> <<30>>]
    /\ scoreIn = <<>>
    /\ scoreOut = [done |-> FALSE, base |-> <<>>, out |-> <<>>]
    /\ runs = <<>>
    /\ timer = 0
    /\ intervals = {}
    /\ started = 0
    /\ committed = [p \in Range(opts.periods) |-> EmptyTables]
    /\ cycles = <<>>
    /\ pager = NoCall
    /\ request = NoCall
    /\ pool = NoCall
    /\ custom = NoCall
    /\ server \in [addresses : {<<>>, <<Addr[1]>>, <<Addr[1], Addr[2]>>},
                   recommendations : {<<>>}, polls : {<<>>}, removed : {{}}]

NextServer ==
    \/ \E addr \in ServerAddresses : PostAddress(addr)
    \/ \E addr \in ServerAddresses : DeleteAddress(addr)
    \/ PollStart
    \/ \E k \in DOMAIN server.polls, price \in {None, Some(1)} : PriceSettled(k, price)
    \/ \E k \in DOMAIN server.polls, ok \in BOOLEAN : ExposureSettled(k, ok)

SpecServer == InitServer /\ [][NextServer]_vars

(* C40: once DELETE has removed an address (and it was not added again),   *)
(* the recommendations hold no recommendation for it, also when a poll     *)
(* was in flight at the removal.                                           *)
C40_RemovedNotRecommended ==
    \A addr \in server.removed :
        \A i \in 1..Len(server.recommendations) :
            server.recommendations[i].address # addr

====
